---- MODULE Spec2Model ----
(***************************************************************************)
(* A model of the terminus-store wrappers: the label file and its locked   *)
(* writer (storage/directory/locking.rs), the layer ancestor test          *)
(* (layer/layer.rs) and the Store / Database / DatabaseLayerBuilder        *)
(* wrappers (store/mod.rs).                                                *)
(*                                                                         *)
(* The label store and the layer builder behind the wrappers are traits    *)
(* whose implementations are not part of the sources at hand; they are     *)
(* modelled from the specification (create_label, get_label, set_label,    *)
(* the staging of the inner builder and its commit).                       *)
(***************************************************************************)
EXTENDS Integers, Sequences, FiniteSets, TLC

(***************************************************************************)
(* Bounds of the model.                                                    *)
(***************************************************************************)
NumTasks == 2
MaxLayers == 3
MaxBuilders == 2
MaxVersion == 2
NumTriples == 1
MaxSubject == 2
MaxPredicate == 2
MaxObject == 2
MaxOps == 1

Tasks == 1..NumTasks
Names == 1..MaxLayers
Versions == 0..MaxVersion
Triples == 1..NumTriples
Subjects == 1..MaxSubject
Predicates == 1..MaxPredicate
Objects == 1..MaxObject

\* Option::None of a layer name ([u32;5]); names proper are 1..MaxLayers.
NoLayer == 0

VARIABLES
    labelFile,   \* the file foodb.label: whether it exists, and its content
    lockShared,  \* tasks holding a shared advisory lock on the label file
    lockExcl,    \* tasks holding the exclusive advisory lock on the label file
    builders,    \* DatabaseLayerBuilder per name: the Option behind the RwLock
    store,       \* the layer store: the committed layers
    commitRuns,  \* per builder, how often the inner commit_boxed was started
    task         \* per task: the call it is in, its locals and its last result

vars == <<labelFile, lockShared, lockExcl, builders, store, commitRuns, task>>

(***************************************************************************)
(* The label file: a sequence of tokens, a token being a newline, a        *)
(* decimal number or a 40-hex layer name.                                  *)
(***************************************************************************)
NL == <<"nl", 0>>
Num(n) == <<"num", n>>
Hex(l) == <<"hex", l>>

\* format!("{}\n\n", version) / format!("{}\n{}\n", version, name_to_string(layer))
FormatLabel(version, layer) ==
    IF layer = NoLayer
    THEN <<Num(version), NL, NL>>
    ELSE <<Num(version), NL, Hex(layer), NL>>

\* str::lines(): split at each newline; a last line needs no newline.
RECURSIVE SplitLines(_, _, _)
SplitLines(data, cur, acc) ==
    IF data = <<>>
    THEN (IF cur = <<>> THEN acc ELSE Append(acc, cur))
    ELSE IF Head(data) = NL
         THEN SplitLines(Tail(data), <<>>, Append(acc, cur))
         ELSE SplitLines(Tail(data), Append(cur, Head(data)), acc)

Lines(data) == SplitLines(data, <<>>, <<>>)

\* u64::from_str_radix(version_str, 10).is_ok()
IsVersionStr(line) == Len(line) = 1 /\ line[1][1] = "num"

\* layer::string_to_name(layer_str).is_ok()
IsLayerStr(line) == Len(line) = 1 /\ line[1][1] = "hex"

LabelOk(layer, version) == [tag |-> "ok", layer |-> layer, version |-> version]
LabelErr(kind) == [tag |-> kind, layer |-> NoLayer, version |-> 0]

\* read_label_file: the Label of a file's content, or an InvalidData error.
read_label_file(data) ==
    LET lines == Lines(data) IN
    IF Len(lines) # 2 THEN LabelErr("InvalidData")
    ELSE IF ~IsVersionStr(lines[1]) THEN LabelErr("InvalidData")
    ELSE IF Len(lines[2]) = 0 THEN LabelOk(NoLayer, lines[1][1][2])
    ELSE IF IsLayerStr(lines[2]) THEN LabelOk(lines[2][1][2], lines[1][1][2])
    ELSE LabelErr("InvalidData")

\* LabelStore::get_label: the label under a shared lock, None when the file is missing.
get_label(file) ==
    IF ~file.exists THEN LabelErr("None") ELSE read_label_file(file.data)

(***************************************************************************)
(* Layers.                                                                 *)
(***************************************************************************)
\* Layer::parent, by name.
ParentOf(n) == store[n].parent

\* The reflexive variant of the ancestor test: a layer counted as its own ancestor.
RECURSIVE is_ancestor_of_reflexive(_, _)
is_ancestor_of_reflexive(self, other) ==
    \/ other = self
    \/ /\ ParentOf(other) # NoLayer
       /\ is_ancestor_of_reflexive(self, ParentOf(other))

\* The ancestor test that looks at the parent only and not further up the chain.
is_ancestor_of_parent_only(self, other) ==
    ParentOf(other) # NoLayer /\ ParentOf(other) = self

\* Layer::is_ancestor_of: self.is_ancestor_of(other).
RECURSIVE is_ancestor_of(_, _)
is_ancestor_of(self, other) ==
    IF ParentOf(other) = NoLayer
    THEN FALSE
    ELSE ParentOf(other) = self \/ is_ancestor_of(self, ParentOf(other))

\* LayerStore::get_layer(name).is_some()
HasLayer(n) == n # NoLayer /\ store[n].present

Committed == {n \in Names : store[n].present}

(***************************************************************************)
(* Tasks.                                                                  *)
(***************************************************************************)
Ret(tag, val) == [tag |-> tag, val |-> val]
Pending == Ret("pending", 0)

IdleTask == [pc |-> "idle", op |-> "none", arg |-> NoLayer, ver |-> 0,
             seen |-> LabelErr("unread"), cas |-> "na", ret |-> Ret("none", 0)]

\* A task entering a call: its locals are fresh.
Call(op, arg) == [IdleTask EXCEPT !.op = op, !.arg = arg, !.ret = Pending]

\* A task back from a call: the call and its result stay until its next call.
Done(op, ret) == [IdleTask EXCEPT !.op = op, !.ret = ret]

\* The same, for a call on a builder: the builder's name stays too.
DoneOn(op, arg, ret) == [IdleTask EXCEPT !.op = op, !.arg = arg, !.ret = ret]

Idle(t) == task[t].pc = "idle"

Returned(t, op) == task[t].pc = "idle" /\ task[t].op = op

NoBuilder == [created |-> FALSE, inner |-> FALSE, parent |-> NoLayer,
              adds |-> {}, rems |-> {}, name |-> NoLayer]
NoStoredLayer == [present |-> FALSE, parent |-> NoLayer, additions |-> {}, removals |-> {}]

\* The state of a fresh store: no label, no builder, no layer.
InitBuilder ==
    /\ labelFile = [exists |-> FALSE, data |-> <<>>]
    /\ lockShared = {}
    /\ lockExcl = {}
    /\ builders = [n \in Names |-> NoBuilder]
    /\ store = [n \in Names |-> NoStoredLayer]
    /\ commitRuns = [n \in Names |-> 0]
    /\ task = [t \in Tasks |-> IdleTask]

\* The parents the layers 1..MaxLayers can have: a layer is built on a layer
\* committed before it, or on none.
Forests == {f \in [Names -> {NoLayer} \cup Names] : \A n \in Names : f[n] < n}

\* A store whose layers have been committed, with no label yet: every layer comes
\* from a builder that was committed once.
Init ==
    /\ labelFile = [exists |-> FALSE, data |-> <<>>]
    /\ lockShared = {}
    /\ lockExcl = {}
    /\ \E f \in Forests :
          /\ builders = [n \in Names |-> [created |-> TRUE, inner |-> FALSE,
                                          parent |-> f[n], adds |-> {}, rems |-> {},
                                    name |-> n]]
          /\ store = [n \in Names |-> [present |-> TRUE, parent |-> f[n],
                                       additions |-> {}, removals |-> {}]]
    /\ commitRuns = [n \in Names |-> 1]
    /\ task = [t \in Tasks |-> IdleTask]

(***************************************************************************)
(* Store::create and the label store behind it.                            *)
(***************************************************************************)
Unlocked == lockShared = {} /\ lockExcl = {}

\* The error a label read hands on: a missing label is NotFound.
LabelError(label) == Ret(IF label.tag = "None" THEN "NotFound" ELSE label.tag, 0)

\* set_label that writes whatever version it finds.
set_label_unconditional(file, expected, layer) ==
    LET cur == get_label(file) IN
    IF cur.tag # "ok"
    THEN [file |-> file, tag |-> LabelError(cur).tag]
    ELSE [file |-> [exists |-> TRUE,
                    data |-> FormatLabel(cur.version + 1, layer)],
          tag |-> "Some"]

\* LabelStore::set_label(expected, layer), modelled from the specification: under the
\* exclusive lock the file is re-read and rewritten iff its version is the expected one.
set_label(file, expected, layer) ==
    LET cur == get_label(file) IN
    IF cur.tag # "ok"
    THEN [file |-> file, tag |-> LabelError(cur).tag]
    ELSE IF cur.version = expected.version
         THEN [file |-> [exists |-> TRUE,
                         data |-> FormatLabel(expected.version + 1, layer)],
               tag |-> "Some"]
         ELSE [file |-> file, tag |-> "None"]

\* Store::create over a create_label that does not look for the label: the label is
\* written anew.
StoreCreateOverwrite(t) ==
    /\ Idle(t)
    /\ Unlocked
    /\ labelFile' = [exists |-> TRUE, data |-> FormatLabel(0, NoLayer)]
    /\ task' = [task EXCEPT ![t] = Done("create", Ret("ok", 0))]
    /\ UNCHANGED <<lockShared, lockExcl, builders, store, commitRuns>>

\* Store::create: create_label writes (name, None, 0) and fails if the label exists.
StoreCreate(t) ==
    /\ Idle(t)
    /\ Unlocked
    /\ IF labelFile.exists
       THEN /\ UNCHANGED labelFile
            /\ task' = [task EXCEPT ![t] =
                   Done("create", Ret("AlreadyExists", 0))]
       ELSE /\ labelFile' = [exists |-> TRUE, data |-> FormatLabel(0, NoLayer)]
            /\ task' = [task EXCEPT ![t] =
                   Done("create", Ret("ok", 0))]
    /\ UNCHANGED <<lockShared, lockExcl, builders, store, commitRuns>>

\* Store::open: get_label(label).map(|label| label.map(Database::new)).
StoreOpen(t) ==
    /\ Idle(t)
    /\ lockExcl = {}
    /\ LET label == get_label(labelFile) IN
       task' = [task EXCEPT ![t] =
           IF label.tag = "ok" THEN Done("open", Ret("Some", 0))
           ELSE IF label.tag = "None" THEN Done("open", Ret("None", 0))
           ELSE Done("open", Ret(label.tag, 0))]
    /\ UNCHANGED <<labelFile, lockShared, lockExcl, builders, store, commitRuns>>

\* LabelStore::delete_label, modelled from the specification: the label is removed.
DeleteLabel(t) ==
    /\ Idle(t)
    /\ Unlocked
    /\ labelFile.exists
    /\ labelFile' = [exists |-> FALSE, data |-> <<>>]
    /\ task' = [task EXCEPT ![t] = Done("delete_label", Ret("true", 0))]
    /\ UNCHANGED <<lockShared, lockExcl, builders, store, commitRuns>>

(***************************************************************************)
(* Database::head.                                                         *)
(***************************************************************************)
\* head that takes a missing label for a label with no head: Ok(None), no error.
HeadCallMissingIsUnset(t) ==
    /\ Idle(t)
    /\ lockExcl = {}
    /\ LET label == get_label(labelFile) IN
       task' = [task EXCEPT ![t] =
           IF label.tag = "None" \/ (label.tag = "ok" /\ label.layer = NoLayer)
           THEN Done("head", Ret("None", 0))
           ELSE IF label.tag # "ok"
           THEN Done("head", LabelError(label))
           ELSE [Call("head", NoLayer) EXCEPT !.seen = label, !.pc = "head_layer"]]
    /\ UNCHANGED <<labelFile, lockShared, lockExcl, builders, store, commitRuns>>

\* head, first part: get_label; a missing label is a NotFound error, an unset
\* head is Ok(None) at once.
HeadCall(t) ==
    /\ Idle(t)
    /\ lockExcl = {}
    /\ LET label == get_label(labelFile) IN
       task' = [task EXCEPT ![t] =
           IF label.tag # "ok"
           THEN Done("head", LabelError(label))
           ELSE IF label.layer = NoLayer
                THEN Done("head", Ret("None", 0))
                ELSE [Call("head", NoLayer) EXCEPT !.seen = label, !.pc = "head_layer"]]
    /\ UNCHANGED <<labelFile, lockShared, lockExcl, builders, store, commitRuns>>

\* head on the Database that Store::create gave, the label being there.
HeadGetLabel(t) == labelFile.exists /\ HeadCall(t)

\* get_layer(layer).map(|layer| layer.map(wrap)): a layer the store lacks is None.
HeadLayer(layer) == IF HasLayer(layer) THEN Ret("Some", layer) ELSE Ret("None", 0)

\* head, second part: the layer the label names, from the layer store.
HeadGetLayer(t) ==
    /\ task[t].pc = "head_layer"
    /\ task' = [task EXCEPT ![t] = Done("head", HeadLayer(task[t].seen.layer))]
    /\ UNCHANGED <<labelFile, lockShared, lockExcl, builders, store, commitRuns>>

\* What head() returns when it runs with no other call between its two parts.
HeadOf(file) ==
    LET label == get_label(file) IN
    IF label.tag # "ok" THEN LabelError(label)
    ELSE IF label.layer = NoLayer THEN Ret("None", 0)
    ELSE HeadLayer(label.layer)

(***************************************************************************)
(* Database::set_head.                                                     *)
(***************************************************************************)
\* set_head, first part: get_label; a missing label is a NotFound error.
SetHeadCall(t, l) ==
    /\ Idle(t)
    /\ lockExcl = {}
    /\ LET label == get_label(labelFile) IN
       task' = [task EXCEPT ![t] =
           IF label.tag = "ok"
           THEN [Call("set_head", l) EXCEPT !.seen = label, !.pc = "sh_check"]
           ELSE Done("set_head", LabelError(label))]
    /\ UNCHANGED <<labelFile, lockShared, lockExcl, builders, store, commitRuns>>

\* set_head on the Database that Store::create gave, with a layer of this store.
SetHeadGetLabel(t, l) ==
    /\ labelFile.exists
    /\ l \in Committed
    /\ SetHeadCall(t, l)

\* The ancestor check without the case of the unset head: None is looked up as a layer.
AncestorCheckHeadOnly(head, layer) ==
    HasLayer(head) /\ is_ancestor_of(head, layer)

\* The ancestor check that lets every layer pass.
AncestorCheckAny(head, layer) == TRUE

\* The ancestor check of set_head: true for an unset head, else
\* get_layer(head).map(|l| l.is_ancestor_of(layer)).unwrap_or(false).
AncestorCheck(head, layer) ==
    IF head = NoLayer THEN TRUE
    ELSE IF HasLayer(head) THEN is_ancestor_of(head, layer)
    ELSE FALSE

\* set_head, second part: the check; false is returned at once.
SetHeadCheck(t) ==
    /\ task[t].pc = "sh_check"
    /\ task' = [task EXCEPT ![t] =
           IF AncestorCheck(task[t].seen.layer, task[t].arg)
           THEN [@ EXCEPT !.pc = "sh_set"]
           ELSE [@ EXCEPT !.pc = "idle", !.ret = Ret("false", 0)]]
    /\ UNCHANGED <<labelFile, lockShared, lockExcl, builders, store, commitRuns>>

\* set_label(&label, layer_name).map(|_| true): any Ok of set_label becomes true.
SetHeadResult(tag) == IF tag \in {"Some", "None"} THEN Ret("true", 0) ELSE Ret(tag, 0)

\* set_head, third part: set_label with the label read in the first part.
SetHeadSetLabel(t) ==
    /\ task[t].pc = "sh_set"
    /\ Unlocked
    /\ LET r == set_label(labelFile, task[t].seen, task[t].arg) IN
       /\ labelFile' = r.file
       /\ task' = [task EXCEPT ![t].pc = "idle", ![t].cas = r.tag,
                               ![t].ret = SetHeadResult(r.tag)]
    /\ UNCHANGED <<lockShared, lockExcl, builders, store, commitRuns>>

(***************************************************************************)
(* DatabaseLayerBuilder.                                                   *)
(***************************************************************************)
Created == {n \in Names : builders[n].created}

\* The layer store names a new builder: a name not used before.
FreshName == CHOOSE n \in Names \ Created : \A m \in Names \ Created : n <= m

\* The model builds at most MaxBuilders layers.
CanCreate == Names \ Created # {} /\ Cardinality(Created) < MaxBuilders

\* DatabaseLayerBuilder::new and ::wrap: name is builder.name(), taken once.
NewBuilder(parent) == [created |-> TRUE, inner |-> TRUE, parent |-> parent,
                       adds |-> {}, rems |-> {}, name |-> FreshName]

\* Store::create_base_layer: DatabaseLayerBuilder::new over a parentless builder.
CreateBaseLayer(t) ==
    /\ Idle(t)
    /\ CanCreate
    /\ builders' = [builders EXCEPT ![FreshName] = NewBuilder(NoLayer)]
    /\ task' = [task EXCEPT ![t] =
           Done("create_base_layer", Ret("ok", FreshName))]
    /\ UNCHANGED <<labelFile, lockShared, lockExcl, store, commitRuns>>

\* DatabaseLayer::open_write: create_child_layer(self.layer.name()), wrapped.
OpenWrite(t, p) ==
    /\ Idle(t)
    /\ p \in Committed
    /\ CanCreate
    /\ builders' = [builders EXCEPT ![FreshName] = NewBuilder(p)]
    /\ task' = [task EXCEPT ![t] =
           Done("open_write", Ret("ok", FreshName))]
    /\ UNCHANGED <<labelFile, lockShared, lockExcl, store, commitRuns>>

\* The inner builder's staging of an addition and of a removal.
StageAdd(b, tr) == [builders[b] EXCEPT !.adds = @ \cup {tr}]
StageRemove(b, tr) == [builders[b] EXCEPT !.rems = @ \cup {tr}]

\* with_builder without the look at the Option: f is applied to a builder already taken.
WithBuilderUnchecked(t, b, op, staged) ==
    /\ Idle(t)
    /\ builders[b].created
    /\ builders' = [builders EXCEPT ![b] = staged]
    /\ task' = [task EXCEPT ![t] = DoneOn(op, b, Ret("ok", 0))]

\* with_builder that looks at the Option without the lock: a builder that a commit
\* has taken and is still committing is staged on as if it were there.
WithBuilderRacing(t, b, op, staged) ==
    /\ Idle(t)
    /\ builders[b].created
    /\ IF builders[b].inner
          \/ \E u \in Tasks : task[u].pc = "commit_run" /\ task[u].arg = b
       THEN /\ builders' = [builders EXCEPT ![b] = staged]
            /\ task' = [task EXCEPT ![t] = DoneOn(op, b, Ret("ok", 0))]
       ELSE /\ UNCHANGED builders
            /\ task' = [task EXCEPT ![t] =
                   DoneOn(op, b, Ret("BuilderConsumed", 0))]

\* with_builder: under the write lock, f on the inner builder, or the error
\* "builder has already been committed" when the Option is None.
WithBuilder(t, b, op, staged) ==
    /\ Idle(t)
    /\ builders[b].created
    /\ IF builders[b].inner
       THEN /\ builders' = [builders EXCEPT ![b] = staged]
            /\ task' = [task EXCEPT ![t] = DoneOn(op, b, Ret("ok", 0))]
       ELSE /\ UNCHANGED builders
            /\ task' = [task EXCEPT ![t] =
                   DoneOn(op, b, Ret("BuilderConsumed", 0))]

AddStringTriple(t, b, tr) ==
    /\ WithBuilder(t, b, "add_string_triple", StageAdd(b, tr))
    /\ UNCHANGED <<labelFile, lockShared, lockExcl, store, commitRuns>>

AddIdTriple(t, b, tr) ==
    /\ WithBuilder(t, b, "add_id_triple", StageAdd(b, tr))
    /\ UNCHANGED <<labelFile, lockShared, lockExcl, store, commitRuns>>

RemoveStringTriple(t, b, tr) ==
    /\ WithBuilder(t, b, "remove_string_triple", StageRemove(b, tr))
    /\ UNCHANGED <<labelFile, lockShared, lockExcl, store, commitRuns>>

RemoveIdTriple(t, b, tr) ==
    /\ WithBuilder(t, b, "remove_id_triple", StageRemove(b, tr))
    /\ UNCHANGED <<labelFile, lockShared, lockExcl, store, commitRuns>>

\* commit whose swap leaves the builder in place: the Option stays Some.
CommitTakeKeep(t, b) ==
    /\ Idle(t)
    /\ builders[b].created
    /\ builders[b].inner
    /\ commitRuns' = [commitRuns EXCEPT ![b] = @ + 1]
    /\ task' = [task EXCEPT ![t] = [Call("commit", b) EXCEPT !.pc = "commit_run"]]
    /\ UNCHANGED builders

\* commit, under the write lock: the builder is swapped out of the Option; a None
\* found there is the error "builder has already been committed".
CommitTake(t, b) ==
    /\ Idle(t)
    /\ builders[b].created
    /\ IF builders[b].inner
       THEN /\ builders' = [builders EXCEPT ![b].inner = FALSE]
            /\ commitRuns' = [commitRuns EXCEPT ![b] = @ + 1]
            /\ task' = [task EXCEPT ![t] = [Call("commit", b) EXCEPT !.pc = "commit_run"]]
       ELSE /\ UNCHANGED <<builders, commitRuns>>
            /\ task' = [task EXCEPT ![t] =
                   DoneOn("commit", b, Ret("BuilderConsumed", 0))]

CommitLock(t, b) ==
    /\ CommitTake(t, b)
    /\ UNCHANGED <<labelFile, lockShared, lockExcl, store>>

\* The layer the inner commit writes: an operation both added and removed is dropped,
\* and only a child layer records removals.
BuiltLayer(b) ==
    [present |-> TRUE, parent |-> builders[b].parent,
     additions |-> builders[b].adds \ builders[b].rems,
     removals |-> IF builders[b].parent = NoLayer THEN {}
                  ELSE builders[b].rems \ builders[b].adds]

\* commit that applies the removals of a child to its parent's layer as well.
CommitRunInPlace(t) ==
    /\ task[t].pc = "commit_run"
    /\ LET b == task[t].arg
           p == builders[b].parent
       IN store' = [n \in Names |->
                       IF n = builders[b].name THEN BuiltLayer(b)
                       ELSE IF n = p
                       THEN [store[n] EXCEPT !.additions = @ \ builders[b].rems]
                       ELSE store[n]]
    /\ task' = [task EXCEPT ![t] =
           DoneOn("commit", task[t].arg, Ret("ok", builders[task[t].arg].name))]
    /\ UNCHANGED <<labelFile, lockShared, lockExcl, builders, commitRuns>>

\* commit that hands back the layer under the name the taken builder has left:
\* none.
CommitRunInnerName(t) ==
    /\ task[t].pc = "commit_run"
    /\ store' = [store EXCEPT ![builders[task[t].arg].name] = BuiltLayer(task[t].arg)]
    /\ task' = [task EXCEPT ![t] = DoneOn("commit", task[t].arg, Ret("ok", NoLayer))]
    /\ UNCHANGED <<labelFile, lockShared, lockExcl, builders, commitRuns>>

\* commit, the inner commit_boxed and get_layer(name), name being the builder's:
\* the layer is in the store and comes back.
CommitRun(t) ==
    /\ task[t].pc = "commit_run"
    /\ store' = [store EXCEPT ![builders[task[t].arg].name] = BuiltLayer(task[t].arg)]
    /\ task' = [task EXCEPT ![t] =
           DoneOn("commit", task[t].arg, Ret("ok", builders[task[t].arg].name))]
    /\ UNCHANGED <<labelFile, lockShared, lockExcl, builders, commitRuns>>

\* DatabaseLayerBuilder::name
BuilderName(t, b) ==
    /\ Idle(t)
    /\ builders[b].created
    /\ task' = [task EXCEPT ![t] = DoneOn("name", b, Ret("ok", builders[b].name))]
    /\ UNCHANGED <<labelFile, lockShared, lockExcl, builders, store, commitRuns>>

\* commit whose failure hands the taken builder back: the Option is Some again.
CommitFailRestores(t) ==
    /\ task[t].pc = "commit_run"
    /\ builders' = [builders EXCEPT ![task[t].arg].inner = TRUE]
    /\ task' = [task EXCEPT ![t] = DoneOn("commit", task[t].arg, Ret("IoError", 0))]
    /\ UNCHANGED <<labelFile, lockShared, lockExcl, store, commitRuns>>

\* commit, the inner commit_boxed failing with an I/O error.
CommitFail(t) ==
    /\ task[t].pc = "commit_run"
    /\ task' = [task EXCEPT ![t] = DoneOn("commit", task[t].arg, Ret("IoError", 0))]
    /\ UNCHANGED <<labelFile, lockShared, lockExcl, builders, store, commitRuns>>

\* commit, its future dropped after the swap and before the inner commit is done:
\* the taken builder, owned by the future, is dropped with it.
CommitDrop(t) ==
    /\ task[t].pc = "commit_run"
    /\ task' = [task EXCEPT ![t] = DoneOn("commit", task[t].arg, Ret("Dropped", 0))]
    /\ UNCHANGED <<labelFile, lockShared, lockExcl, builders, store, commitRuns>>

(***************************************************************************)
(* Layer: the queries on the triples of a layer and its chain. The lookups   *)
(* and enumerations of a layer are those of the specification's chain       *)
(* resolver; what the Layer trait and the lookup traits build on them is     *)
(* translated from the trait's provided methods.                            *)
(***************************************************************************)
\* IdTriple::new(subject, predicate, object)
IdTriple(subject, predicate, object) == <<subject, predicate, object>>

IdTriples == {IdTriple(s, p, o) : s \in Subjects, p \in Predicates, o \in Objects}

\* Option::None of a lookup or of a triple.
NoHandle == [tag |-> "None"]

\* The additions that the layers of the chain of n have registered.
RECURSIVE ChainAdditions(_)
ChainAdditions(n) ==
    IF n = NoLayer THEN {}
    ELSE store[n].additions \cup ChainAdditions(ParentOf(n))

\* The existence check of the chain: from the layer down to the base, removed as
\* soon as a layer's removals hold the triple, added once a layer's additions do.
RECURSIVE InLogicalSet(_, _)
InLogicalSet(n, triple) ==
    IF n = NoLayer THEN FALSE
    ELSE IF triple \in store[n].removals THEN FALSE
    ELSE IF triple \in store[n].additions THEN TRUE
    ELSE InLogicalSet(ParentOf(n), triple)

\* Layer::lookup_subject: a handle when this layer or a parent layer has registered
\* an addition involving the subject, whatever was removed later.
lookup_subject(n, subject) ==
    IF \E tr \in ChainAdditions(n) : tr[1] = subject
    THEN [tag |-> "Some", layer |-> n, subject |-> subject]
    ELSE NoHandle

\* SubjectLookup::lookup_predicate: a handle when the chain has additions for the
\* subject and the predicate.
lookup_predicate(pairs, predicate) ==
    IF \E tr \in ChainAdditions(pairs.layer) :
           tr[1] = pairs.subject /\ tr[2] = predicate
    THEN [tag |-> "Some", layer |-> pairs.layer,
          subject |-> pairs.subject, predicate |-> predicate]
    ELSE NoHandle

\* SubjectPredicateLookup::has_object: the object is there after masking.
has_object(objects, object) ==
    InLogicalSet(objects.layer, IdTriple(objects.subject, objects.predicate, object))

\* SubjectPredicateLookup::triple that does not ask has_object.
sp_triple_unasked(objects, object) ==
    [tag |-> "Some", triple |-> IdTriple(objects.subject, objects.predicate, object)]

\* SubjectPredicateLookup::triple
sp_triple(objects, object) ==
    IF has_object(objects, object)
    THEN [tag |-> "Some", triple |-> IdTriple(objects.subject, objects.predicate, object)]
    ELSE NoHandle

\* Layer::triple_exists that stops at the predicate lookup: a handle taken for a result.
triple_exists_by_handle(n, subject, predicate, object) ==
    LET pairs == lookup_subject(n, subject) IN
    IF pairs.tag = "None" THEN FALSE
    ELSE lookup_predicate(pairs, predicate).tag = "Some"

\* Layer::triple_exists:
\* lookup_subject(s).and_then(lookup_predicate(p)).and_then(triple(o)).is_some()
triple_exists(n, subject, predicate, object) ==
    LET pairs == lookup_subject(n, subject) IN
    IF pairs.tag = "None" THEN FALSE
    ELSE LET objects == lookup_predicate(pairs, predicate) IN
         IF objects.tag = "None" THEN FALSE
         ELSE sp_triple(objects, object).tag = "Some"

\* The ids of a set as the ascending sequence an index enumerates.
RECURSIVE Ascending(_)
Ascending(ids) ==
    IF ids = {} THEN <<>>
    ELSE LET least == CHOOSE x \in ids : \A y \in ids : x <= y
         IN <<least>> \o Ascending(ids \ {least})

\* Iterator::flatten
RECURSIVE Flatten(_)
Flatten(seqs) ==
    IF seqs = <<>> THEN <<>> ELSE Head(seqs) \o Flatten(Tail(seqs))

\* Layer::subjects: the subject lookups, in ascending order of subject.
subjects(n) ==
    LET ids == Ascending({s \in Subjects : lookup_subject(n, s).tag = "Some"})
    IN [i \in 1..Len(ids) |-> lookup_subject(n, ids[i])]

\* SubjectLookup::predicates: the predicate lookups, in ascending order of predicate.
predicates(pairs) ==
    LET ids == Ascending({p \in Predicates : lookup_predicate(pairs, p).tag = "Some"})
    IN [i \in 1..Len(ids) |-> lookup_predicate(pairs, ids[i])]

\* SubjectPredicateLookup::objects: the objects after masking, ascending.
objects(sp) == Ascending({o \in Objects : has_object(sp, o)})

\* SubjectPredicateLookup::triples
sp_triples(sp) ==
    LET os == objects(sp)
    IN [i \in 1..Len(os) |-> IdTriple(sp.subject, sp.predicate, os[i])]

\* Layer::triples over the object index: the triples object by object.
layer_triples_by_object(n) ==
    LET os == Ascending({o \in Objects : \E tr \in ChainAdditions(n) : tr[3] = o})
    IN Flatten([i \in 1..Len(os) |->
           LET pairs == Ascending({s \in Subjects : \E p \in Predicates :
                                      InLogicalSet(n, IdTriple(s, p, os[i]))})
           IN Flatten([j \in 1..Len(pairs) |->
                  LET ps == Ascending({p \in Predicates :
                                InLogicalSet(n, IdTriple(pairs[j], p, os[i]))})
                  IN [k \in 1..Len(ps) |-> IdTriple(pairs[j], ps[k], os[i])]])])

\* Layer::triples:
\* subjects().map(|s| s.predicates()).flatten().map(|p| p.triples()).flatten()
layer_triples(n) ==
    LET ss == subjects(n)
        ps == Flatten([i \in 1..Len(ss) |-> predicates(ss[i])])
    IN Flatten([i \in 1..Len(ps) |-> sp_triples(ps[i])])

\* Layer::lookup_object: a handle when this layer or a parent layer has registered
\* an addition involving the object.
lookup_object(n, object) ==
    IF \E tr \in ChainAdditions(n) : tr[3] = object
    THEN [tag |-> "Some", layer |-> n, object |-> object]
    ELSE NoHandle

\* (subject, predicate) pairs in ascending lexicographic order.
PairBefore(a, b) == a[1] < b[1] \/ (a[1] = b[1] /\ a[2] <= b[2])

RECURSIVE AscendingPairs(_)
AscendingPairs(pairs) ==
    IF pairs = {} THEN <<>>
    ELSE LET least == CHOOSE x \in pairs : \A y \in pairs : PairBefore(x, y)
         IN <<least>> \o AscendingPairs(pairs \ {least})

\* ObjectLookup::subject_predicate_pairs: the pairs pointing at the object after
\* masking, in ascending (subject, predicate) order.
subject_predicate_pairs(lookup) ==
    AscendingPairs({<<s, p>> \in Subjects \X Predicates :
                       InLogicalSet(lookup.layer, IdTriple(s, p, lookup.object))})

\* The loop of has_subject_predicate_pair with an early exit that compares subject
\* and predicate each on its own.
RECURSIVE ScanPairsComponentwise(_, _, _)
ScanPairsComponentwise(pairs, subject, predicate) ==
    IF pairs = <<>> THEN FALSE
    ELSE LET s == Head(pairs)[1]
             p == Head(pairs)[2]
         IN IF s = subject /\ p = predicate THEN TRUE
            ELSE IF s > subject \/ p > predicate THEN FALSE
            ELSE ScanPairsComponentwise(Tail(pairs), subject, predicate)

\* The loop of has_subject_predicate_pair: true at the pair, false once past it.
RECURSIVE ScanPairs(_, _, _)
ScanPairs(pairs, subject, predicate) ==
    IF pairs = <<>> THEN FALSE
    ELSE LET s == Head(pairs)[1]
             p == Head(pairs)[2]
         IN IF s = subject /\ p = predicate THEN TRUE
            ELSE IF s > subject \/ (s = subject /\ p > predicate) THEN FALSE
            ELSE ScanPairs(Tail(pairs), subject, predicate)

\* ObjectLookup::has_subject_predicate_pair
has_subject_predicate_pair(lookup, subject, predicate) ==
    ScanPairs(subject_predicate_pairs(lookup), subject, predicate)

(***************************************************************************)
(* The programs that query the layers of a chain.                          *)
(***************************************************************************)
\* The sets of at most MaxOps triples.
FewTriples == {ts \in SUBSET IdTriples : Cardinality(ts) <= MaxOps}

\* What a layer can hold: additions and removals that share no triple, MaxOps
\* operations at most.
Contents ==
    {c \in [additions : FewTriples, removals : FewTriples] :
        /\ c.additions \cap c.removals = {}
        /\ Cardinality(c.additions) + Cardinality(c.removals) <= MaxOps}

\* A store holding one chain of committed layers, layer 1 the base, which has no
\* removals, and every further layer a child of the one before.
InitQuery ==
    /\ labelFile = [exists |-> FALSE, data |-> <<>>]
    /\ lockShared = {}
    /\ lockExcl = {}
    /\ builders = [n \in Names |-> [created |-> TRUE, inner |-> FALSE,
                                    parent |-> n - 1, adds |-> {}, rems |-> {},
                                    name |-> n]]
    /\ \E c \in [Names -> Contents] :
          /\ c[1].removals = {}
          /\ store = [n \in Names |-> [present |-> TRUE, parent |-> n - 1,
                                       additions |-> c[n].additions,
                                       removals |-> c[n].removals]]
    /\ commitRuns = [n \in Names |-> 1]
    /\ task = [t \in Tasks |-> IdleTask]

\* A query reads immutable layers and meets no other call: a run asks one query,
\* by any task, of the chain it starts with.
QueryTurn(t) == \A u \in Tasks : task[u] = IdleTask

\* A bool as the result of a call.
Bool(b) == Ret(IF b THEN "true" ELSE "false", 0)

\* Layer::triple_exists, and Layer::id_triple_exists which hands the triple on to it.
TripleExists(t, n, tr) ==
    /\ QueryTurn(t)
    /\ task' = [task EXCEPT ![t] =
           DoneOn("triple_exists", <<n, tr>>, Bool(triple_exists(n, tr[1], tr[2], tr[3])))]
    /\ UNCHANGED <<labelFile, lockShared, lockExcl, builders, store, commitRuns>>

\* Layer::triples, collected.
TriplesCall(t, n) ==
    /\ QueryTurn(t)
    /\ task' = [task EXCEPT ![t] = DoneOn("triples", <<n>>, Ret("ok", layer_triples(n)))]
    /\ UNCHANGED <<labelFile, lockShared, lockExcl, builders, store, commitRuns>>

\* Layer::lookup_object and ObjectLookup::has_subject_predicate_pair on the handle.
HasSubjectPredicatePair(t, n, o, s, p) ==
    /\ QueryTurn(t)
    /\ lookup_object(n, o).tag = "Some"
    /\ task' = [task EXCEPT ![t] =
           DoneOn("has_subject_predicate_pair", <<n, o, s, p>>,
                  Bool(has_subject_predicate_pair(lookup_object(n, o), s, p)))]
    /\ UNCHANGED <<labelFile, lockShared, lockExcl, builders, store, commitRuns>>

QueryStep(t) ==
    \/ \E n \in Names, tr \in IdTriples : TripleExists(t, n, tr)
    \/ \E n \in Names : TriplesCall(t, n)
    \/ \E n \in Names, o \in Objects, s \in Subjects, p \in Predicates :
          HasSubjectPredicatePair(t, n, o, s, p)

NextQuery == \E t \in Tasks : QueryStep(t)

SpecQuery == InitQuery /\ [][NextQuery]_vars

(***************************************************************************)
(* The dictionaries of a layer, and the conversions between string triples *)
(* and id triples.                                                         *)
(***************************************************************************)
\* The strings of the model, in the sorted order in which a dictionary numbers
\* its entries.
SortedStrings == <<"cow", "moo", "says">>

\* The strings used as subjects and node objects, as value objects, as predicates.
NodeStrings == {"cow", "moo"}
ValueStrings == {"moo"}
PredicateStrings == {"says"}

\* ObjectType::Node and ObjectType::Value
Node(str) == [type |-> "Node", str |-> str]
Value(str) == [type |-> "Value", str |-> str]

ObjectTypes == {Node(s) : s \in NodeStrings} \cup {Value(s) : s \in ValueStrings}

\* struct StringTriple
StringTriple(subject, predicate, object) ==
    [subject |-> subject, predicate |-> predicate, object |-> object]

StringTriples ==
    {StringTriple(s, p, o) : s \in NodeStrings, p \in PredicateStrings, o \in ObjectTypes}

\* The ids a chain's node and value dictionaries give out, and its predicate
\* dictionaries.
DictIds == 1..(Cardinality(NodeStrings) + Cardinality(ValueStrings))
DictPredicateIds == 1..Cardinality(PredicateStrings)
DictIdTriples == DictIds \X DictPredicateIds \X DictIds

\* Option::Some and Option::None of a conversion.
Some(v) == Ret("Some", v)
None == Ret("None", 0)

\* A string's place in the sorted order.
Rank(str) == CHOOSE i \in 1..Len(SortedStrings) : SortedStrings[i] = str

\* A dictionary's id_of: entries are numbered from 1 in sorted order.
DictId(dict, str) == Cardinality({x \in dict : Rank(x) <= Rank(str)})

\* A dictionary's string_of.
DictEntry(dict, id) == CHOOSE x \in dict : DictId(dict, x) = id

\* Layer::node_and_value_count: the entries of this layer and of its parents.
RECURSIVE node_and_value_count(_)
node_and_value_count(n) ==
    IF n = NoLayer THEN 0
    ELSE node_and_value_count(ParentOf(n))
            + Cardinality(store[n].nodes) + Cardinality(store[n].values)

\* Layer::predicate_count
RECURSIVE predicate_count(_)
predicate_count(n) ==
    IF n = NoLayer THEN 0
    ELSE predicate_count(ParentOf(n)) + Cardinality(store[n].predicates)

\* Layer::subject_id: this layer's node dictionary, the parent's on a miss; a
\* layer's ids follow those of its parents.
RECURSIVE subject_id(_, _)
subject_id(n, subject) ==
    IF n = NoLayer THEN None
    ELSE IF subject \in store[n].nodes
    THEN Some(node_and_value_count(ParentOf(n)) + DictId(store[n].nodes, subject))
    ELSE subject_id(ParentOf(n), subject)

\* Layer::predicate_id
RECURSIVE predicate_id(_, _)
predicate_id(n, predicate) ==
    IF n = NoLayer THEN None
    ELSE IF predicate \in store[n].predicates
    THEN Some(predicate_count(ParentOf(n)) + DictId(store[n].predicates, predicate))
    ELSE predicate_id(ParentOf(n), predicate)

\* Layer::object_node_id: nodes are numbered once, as subjects and as objects.
object_node_id(n, object) == subject_id(n, object)

\* Layer::object_value_id: a layer's values are numbered after its nodes.
RECURSIVE object_value_id(_, _)
object_value_id(n, object) ==
    IF n = NoLayer THEN None
    ELSE IF object \in store[n].values
    THEN Some(node_and_value_count(ParentOf(n)) + Cardinality(store[n].nodes)
                 + DictId(store[n].values, object))
    ELSE object_value_id(ParentOf(n), object)

\* Layer::id_object: the layer that owns the id by its range, and there the node
\* dictionary or the value dictionary.
RECURSIVE id_object(_, _)
id_object(n, id) ==
    IF n = NoLayer \/ id = 0 THEN None
    ELSE LET below == node_and_value_count(ParentOf(n))
             nodes == Cardinality(store[n].nodes)
             values == Cardinality(store[n].values)
         IN IF id <= below THEN id_object(ParentOf(n), id)
            ELSE IF id - below <= nodes
            THEN Some(Node(DictEntry(store[n].nodes, id - below)))
            ELSE IF id - below - nodes <= values
            THEN Some(Value(DictEntry(store[n].values, id - below - nodes)))
            ELSE None

\* Layer::id_subject: the node behind the id; a value's id is no subject.
id_subject(n, id) ==
    LET object == id_object(n, id)
    IN IF object.tag = "Some" /\ object.val.type = "Node"
       THEN Some(object.val.str)
       ELSE None

\* Layer::id_predicate
RECURSIVE id_predicate(_, _)
id_predicate(n, id) ==
    IF n = NoLayer \/ id = 0 THEN None
    ELSE LET below == predicate_count(ParentOf(n))
         IN IF id <= below THEN id_predicate(ParentOf(n), id)
            ELSE IF id - below <= Cardinality(store[n].predicates)
            THEN Some(DictEntry(store[n].predicates, id - below))
            ELSE None

\* string_triple_to_id that looks an object up as a node first, whatever its type.
string_triple_to_id_untyped(n, triple) ==
    LET subject == subject_id(n, triple.subject)
        predicate == predicate_id(n, triple.predicate)
        object == IF object_node_id(n, triple.object.str).tag = "Some"
                  THEN object_node_id(n, triple.object.str)
                  ELSE object_value_id(n, triple.object.str)
    IN IF subject.tag = "Some" /\ predicate.tag = "Some" /\ object.tag = "Some"
       THEN Some(IdTriple(subject.val, predicate.val, object.val))
       ELSE None

\* Layer::string_triple_to_id
string_triple_to_id(n, triple) ==
    LET subject == subject_id(n, triple.subject)
        predicate == predicate_id(n, triple.predicate)
        object == IF triple.object.type = "Node"
                  THEN object_node_id(n, triple.object.str)
                  ELSE object_value_id(n, triple.object.str)
    IN IF subject.tag = "Some" /\ predicate.tag = "Some" /\ object.tag = "Some"
       THEN Some(IdTriple(subject.val, predicate.val, object.val))
       ELSE None

\* Layer::id_triple_exists
id_triple_exists(n, triple) == triple_exists(n, triple[1], triple[2], triple[3])

\* Layer::string_triple_exists
string_triple_exists(n, triple) ==
    LET t == string_triple_to_id(n, triple)
    IN IF t.tag = "Some" THEN id_triple_exists(n, t.val) ELSE FALSE

\* id_triple_to_string that hands every object back as a node.
id_triple_to_string_as_node(n, triple) ==
    LET subject == id_subject(n, triple[1])
        predicate == id_predicate(n, triple[2])
        object == id_object(n, triple[3])
    IN IF subject.tag = "Some" /\ predicate.tag = "Some" /\ object.tag = "Some"
       THEN Some(StringTriple(subject.val, predicate.val, Node(object.val.str)))
       ELSE None

\* Layer::id_triple_to_string
id_triple_to_string(n, triple) ==
    LET subject == id_subject(n, triple[1])
        predicate == id_predicate(n, triple[2])
        object == id_object(n, triple[3])
    IN IF subject.tag = "Some" /\ predicate.tag = "Some" /\ object.tag = "Some"
       THEN Some(StringTriple(subject.val, predicate.val, object.val))
       ELSE None

(***************************************************************************)
(* The programs that convert and look up string triples on a chain.        *)
(***************************************************************************)
\* The id triples a layer can hold: the ids of its chain, a node as the subject.
KnownTriple(n, triple) ==
    /\ id_subject(n, triple[1]).tag = "Some"
    /\ id_predicate(n, triple[2]).tag = "Some"
    /\ id_object(n, triple[3]).tag = "Some"

\* A store holding one chain of committed layers, every layer a child of the one
\* before. A string is introduced by one layer of the chain at most, in each of the
\* three dictionaries; the chain holds MaxOps triples at most, each of ids its
\* layer knows.
InitDict ==
    /\ labelFile = [exists |-> FALSE, data |-> <<>>]
    /\ lockShared = {}
    /\ lockExcl = {}
    /\ builders = [n \in Names |-> [created |-> TRUE, inner |-> FALSE,
                                    parent |-> n - 1, adds |-> {}, rems |-> {},
                                    name |-> n]]
    /\ \E nodeAt \in [NodeStrings -> Names \cup {NoLayer}],
          valueAt \in [ValueStrings -> Names \cup {NoLayer}],
          predicateAt \in [PredicateStrings -> Names \cup {NoLayer}],
          holder \in Names,
          held \in {ts \in SUBSET DictIdTriples : Cardinality(ts) <= MaxOps} :
          store = [n \in Names |->
                      [present |-> TRUE, parent |-> n - 1,
                       additions |-> IF n = holder THEN held ELSE {},
                       removals |-> {},
                       nodes |-> {s \in NodeStrings : nodeAt[s] = n},
                       values |-> {s \in ValueStrings : valueAt[s] = n},
                       predicates |-> {s \in PredicateStrings : predicateAt[s] = n}]]
    /\ \A n \in Names : \A triple \in store[n].additions : KnownTriple(n, triple)
    /\ commitRuns = [n \in Names |-> 1]
    /\ task = [t \in Tasks |-> IdleTask]

\* Layer::string_triple_exists
StringTripleExists(t, n, triple) ==
    /\ QueryTurn(t)
    /\ task' = [task EXCEPT ![t] =
           DoneOn("string_triple_exists", <<n, triple>>,
                  Bool(string_triple_exists(n, triple)))]
    /\ UNCHANGED <<labelFile, lockShared, lockExcl, builders, store, commitRuns>>

\* Layer::string_triple_to_id
StringTripleToId(t, n, triple) ==
    /\ QueryTurn(t)
    /\ task' = [task EXCEPT ![t] =
           DoneOn("string_triple_to_id", <<n, triple>>, string_triple_to_id(n, triple))]
    /\ UNCHANGED <<labelFile, lockShared, lockExcl, builders, store, commitRuns>>

\* Layer::id_triple_to_string
IdTripleToString(t, n, triple) ==
    /\ QueryTurn(t)
    /\ task' = [task EXCEPT ![t] =
           DoneOn("id_triple_to_string", <<n, triple>>, id_triple_to_string(n, triple))]
    /\ UNCHANGED <<labelFile, lockShared, lockExcl, builders, store, commitRuns>>

DictStep(t) ==
    \/ \E n \in Names, triple \in StringTriples : StringTripleExists(t, n, triple)
    \/ \E n \in Names, triple \in StringTriples : StringTripleToId(t, n, triple)
    \/ \E n \in Names, triple \in DictIdTriples : IdTripleToString(t, n, triple)

NextDict == \E t \in Tasks : DictStep(t)

SpecDict == InitDict /\ [][NextDict]_vars

(***************************************************************************)
(* PartiallyResolvedTriple: the triples a builder holds while some of their *)
(* strings have no id yet, and resolve_with.                                *)
(***************************************************************************)
\* PossiblyResolved::Unresolved and PossiblyResolved::Resolved
Unresolved(u) == [kind |-> "Unresolved", val |-> u]
Resolved(id) == [kind |-> "Resolved", val |-> id]

\* struct PartiallyResolvedTriple
PartiallyResolvedTriple(subject, predicate, object) ==
    [subject |-> subject, predicate |-> predicate, object |-> object]

PartiallyResolvedTriples ==
    {PartiallyResolvedTriple(s, p, o) :
        s \in {Unresolved(x) : x \in NodeStrings} \cup {Resolved(id) : id \in DictIds},
        p \in {Unresolved(x) : x \in PredicateStrings}
                 \cup {Resolved(id) : id \in DictPredicateIds},
        o \in {Unresolved(x) : x \in ObjectTypes} \cup {Resolved(id) : id \in DictIds}}

\* The HashMap<String, u64> values over some strings and ids: the functions from
\* a set of the strings to the ids.
HashMaps(strings, ids) == UNION {[keys -> ids] : keys \in SUBSET strings}

\* HashMap::get
MapGet(map, key) == IF key \in DOMAIN map THEN Some(map[key]) ELSE None

\* resolve_with that looks every unresolved object up in the node map.
resolve_with_node_map_only(self, node_map, predicate_map, value_map) ==
    LET subject == IF self.subject.kind = "Unresolved"
                   THEN MapGet(node_map, self.subject.val)
                   ELSE Some(self.subject.val)
        predicate == IF self.predicate.kind = "Unresolved"
                     THEN MapGet(predicate_map, self.predicate.val)
                     ELSE Some(self.predicate.val)
        object == IF self.object.kind = "Unresolved"
                  THEN MapGet(node_map, self.object.val.str)
                  ELSE Some(self.object.val)
    IN IF subject.tag = "Some" /\ predicate.tag = "Some" /\ object.tag = "Some"
       THEN Some(IdTriple(subject.val, predicate.val, object.val))
       ELSE None

\* PartiallyResolvedTriple::resolve_with
resolve_with(self, node_map, predicate_map, value_map) ==
    LET subject == IF self.subject.kind = "Unresolved"
                   THEN MapGet(node_map, self.subject.val)
                   ELSE Some(self.subject.val)
        predicate == IF self.predicate.kind = "Unresolved"
                     THEN MapGet(predicate_map, self.predicate.val)
                     ELSE Some(self.predicate.val)
        object == IF self.object.kind = "Unresolved"
                  THEN (IF self.object.val.type = "Node"
                        THEN MapGet(node_map, self.object.val.str)
                        ELSE MapGet(value_map, self.object.val.str))
                  ELSE Some(self.object.val)
    IN IF subject.tag = "Some" /\ predicate.tag = "Some" /\ object.tag = "Some"
       THEN Some(IdTriple(subject.val, predicate.val, object.val))
       ELSE None

\* resolve_with, called by a task on a triple and three maps.
ResolveWith(t, self, node_map, predicate_map, value_map) ==
    /\ QueryTurn(t)
    /\ task' = [task EXCEPT ![t] =
           DoneOn("resolve_with", <<self, node_map, predicate_map, value_map>>,
                  resolve_with(self, node_map, predicate_map, value_map))]
    /\ UNCHANGED <<labelFile, lockShared, lockExcl, builders, store, commitRuns>>

NextResolve ==
    \E t \in Tasks :
        /\ QueryTurn(t)
        /\ \E self \in PartiallyResolvedTriples,
              node_map \in HashMaps(NodeStrings, DictIds),
              predicate_map \in HashMaps(PredicateStrings, DictPredicateIds),
              value_map \in HashMaps(ValueStrings, DictIds) :
               ResolveWith(t, self, node_map, predicate_map, value_map)

SpecResolve == InitBuilder /\ [][NextResolve]_vars

(***************************************************************************)
(* The programs that use a Database over committed layers.                 *)
(***************************************************************************)
DatabaseStep(t) ==
    \/ StoreCreate(t)
    \/ StoreOpen(t)
    \/ HeadGetLabel(t)
    \/ HeadGetLayer(t)
    \/ \E l \in Names : SetHeadGetLabel(t, l)
    \/ SetHeadCheck(t)
    \/ SetHeadSetLabel(t)

Next == \E t \in Tasks : DatabaseStep(t)

Spec == Init /\ [][Next]_vars

(***************************************************************************)
(* LockedFileWriter: open and write_label, called on the label file.       *)
(***************************************************************************)
\* A write of contents at the file's cursor.
WriteAt(data, pos, contents) ==
    SubSeq(data, 1, pos) \o contents
        \o SubSeq(data, pos + Len(contents) + 1, Len(data))

\* Drop for LockedFileWriter: the file is unlocked.
DropWriter(t) == lockExcl' = lockExcl \ {t}

\* LockedFileWriter::open: the file opened for reading and writing and locked
\* exclusively; a missing file is the error of the open.
WlOpen(t, version, layer) ==
    /\ Idle(t)
    /\ Unlocked
    /\ IF labelFile.exists
       THEN /\ lockExcl' = {t}
            /\ task' = [task EXCEPT ![t] =
                   [Call("write_label", layer) EXCEPT !.ver = version, !.pc = "wl_read"]]
       ELSE /\ UNCHANGED lockExcl
            /\ task' = [task EXCEPT ![t] =
                   Done("write_label", Ret("NotFound", 0))]
    /\ UNCHANGED <<labelFile, lockShared, builders, store, commitRuns>>

\* write_label whose comparison comes after the write: the contents are written
\* also when the stored version is ahead.
WlReadWriteFirst(t) ==
    /\ task[t].pc = "wl_read"
    /\ LET l == read_label_file(labelFile.data) IN
       IF l.tag # "ok"
       THEN /\ task' = [task EXCEPT ![t] = Done("write_label", Ret(l.tag, 0))]
            /\ DropWriter(t)
            /\ UNCHANGED labelFile
       ELSE /\ task' = [task EXCEPT ![t] =
                   Done("write_label", IF l.version > task[t].ver
                                       THEN Ret("false", 0) ELSE Ret("true", 0))]
            /\ DropWriter(t)
            /\ labelFile' = [labelFile EXCEPT !.data =
                   WriteAt(@, Len(@), FormatLabel(task[t].ver, task[t].arg))]
    /\ UNCHANGED <<lockShared, builders, store, commitRuns>>

\* write_label that unlocks the file after the comparison and writes unlocked.
WlReadUnlocks(t) ==
    /\ task[t].pc = "wl_read"
    /\ LET l == read_label_file(labelFile.data) IN
       IF l.tag # "ok"
       THEN task' = [task EXCEPT ![t] = Done("write_label", Ret(l.tag, 0))]
       ELSE IF l.version > task[t].ver
       THEN task' = [task EXCEPT ![t] = Done("write_label", Ret("false", 0))]
       ELSE IF l.version = task[t].ver
       THEN task' = [task EXCEPT ![t] = Done("write_label", Ret("true", 0))]
       ELSE task' = [task EXCEPT ![t].pc = "wl_write"]
    /\ DropWriter(t)
    /\ UNCHANGED <<labelFile, lockShared, builders, store, commitRuns>>

\* write_label, the read and the comparison: false when the stored version is
\* ahead, true with nothing written when it is the label's, else the write follows.
WlRead(t) ==
    /\ task[t].pc = "wl_read"
    /\ LET l == read_label_file(labelFile.data) IN
       IF l.tag # "ok"
       THEN /\ task' = [task EXCEPT ![t] = Done("write_label", Ret(l.tag, 0))]
            /\ DropWriter(t)
       ELSE IF l.version > task[t].ver
       THEN /\ task' = [task EXCEPT ![t] = Done("write_label", Ret("false", 0))]
            /\ DropWriter(t)
       ELSE IF l.version = task[t].ver
       THEN /\ task' = [task EXCEPT ![t] = Done("write_label", Ret("true", 0))]
            /\ DropWriter(t)
       ELSE /\ task' = [task EXCEPT ![t].pc = "wl_write"]
            /\ UNCHANGED lockExcl
    /\ UNCHANGED <<labelFile, lockShared, builders, store, commitRuns>>

\* write_label, the write: write_all(w, contents) where read_to_end left the cursor,
\* which is the end of the file; then shutdown, true, and the writer is dropped.
WlWrite(t) ==
    /\ task[t].pc = "wl_write"
    /\ labelFile' = [labelFile EXCEPT !.data =
           WriteAt(@, Len(@), FormatLabel(task[t].ver, task[t].arg))]
    /\ task' = [task EXCEPT ![t] = Done("write_label", Ret("true", 0))]
    /\ DropWriter(t)
    /\ UNCHANGED <<lockShared, builders, store, commitRuns>>

(***************************************************************************)
(* The programs that use a Database and also call write_label themselves.  *)
(***************************************************************************)
WriteLabelStep(t) ==
    \/ \E version \in Versions, layer \in {NoLayer} \cup Names : WlOpen(t, version, layer)
    \/ WlRead(t)
    \/ WlWrite(t)

NextFile == \E t \in Tasks : DatabaseStep(t) \/ WriteLabelStep(t)

SpecFile == Init /\ [][NextFile]_vars

(***************************************************************************)
(* LockedFile and LockedFileAppender: the other two handles on a file, and *)
(* read_label_file called on a LockedFile.                                  *)
(***************************************************************************)
\* The longest label file a run starts with, in tokens.
MaxFileLen == 4

\* Content that is no number and no layer name.
Junk == <<"junk", 0>>

\* The tokens of the files a run starts with.
FileTokens == {Num(0), NL, Hex(1), Junk}

\* The contents of at most MaxFileLen tokens.
FileContents == UNION {[1..n -> FileTokens] : n \in 0..MaxFileLen}

\* A drop of the reader that leaves the file locked.
DropReaderKeep(t) == lockShared' = lockShared

\* Drop for LockedFile: the file is unlocked.
DropReader(t) == lockShared' = lockShared \ {t}

\* LockedFile::open that does not wait for the writer to unlock.
LockedFileOpenUnlocked(t) ==
    /\ Idle(t)
    /\ IF labelFile.exists
       THEN /\ lockShared' = lockShared \cup {t}
            /\ task' = [task EXCEPT ![t] =
                   [Call("read_label_file", NoLayer) EXCEPT !.pc = "lf_read"]]
       ELSE /\ UNCHANGED lockShared
            /\ task' = [task EXCEPT ![t] = Done("read_label_file", Ret("None", 0))]
    /\ UNCHANGED <<labelFile, lockExcl, builders, store, commitRuns>>

\* LockedFile::open: the file opened for reading and locked shared, which waits
\* while a writer or appender holds it; None when the file is missing.
LockedFileOpen(t) ==
    /\ Idle(t)
    /\ IF labelFile.exists
       THEN /\ lockExcl = {}
            /\ lockShared' = lockShared \cup {t}
            /\ task' = [task EXCEPT ![t] =
                   [Call("read_label_file", NoLayer) EXCEPT !.pc = "lf_read"]]
       ELSE /\ UNCHANGED lockShared
            /\ task' = [task EXCEPT ![t] = Done("read_label_file", Ret("None", 0))]
    /\ UNCHANGED <<labelFile, lockExcl, builders, store, commitRuns>>

\* read_label_file on the LockedFile: the label comes back with the reader, which
\* the caller holds on to; on a format error the reader is dropped with the error.
LockedFileRead(t) ==
    /\ task[t].pc = "lf_read"
    /\ LET l == read_label_file(labelFile.data) IN
       IF l.tag = "ok"
       THEN /\ task' = [task EXCEPT ![t].pc = "lf_held", ![t].seen = l]
            /\ UNCHANGED lockShared
       ELSE /\ task' = [task EXCEPT ![t] = Done("read_label_file", Ret(l.tag, 0))]
            /\ DropReader(t)
    /\ UNCHANGED <<labelFile, lockExcl, builders, store, commitRuns>>

\* The caller takes the label and drops the reader.
LockedFileDrop(t) ==
    /\ task[t].pc = "lf_held"
    /\ task' = [task EXCEPT ![t] =
           Done("read_label_file",
                Ret("ok", <<task[t].seen.layer, task[t].seen.version>>))]
    /\ DropReader(t)
    /\ UNCHANGED <<labelFile, lockExcl, builders, store, commitRuns>>

\* LockedFileAppender::open: the file opened for appending and locked exclusively;
\* a missing file is the error of the open.
AppenderOpen(t) ==
    /\ Idle(t)
    /\ IF labelFile.exists
       THEN /\ Unlocked
            /\ lockExcl' = {t}
            /\ task' = [task EXCEPT ![t] =
                   [Call("append", NoLayer) EXCEPT !.pc = "ap_open"]]
       ELSE /\ UNCHANGED lockExcl
            /\ task' = [task EXCEPT ![t] = Done("append", Ret("NotFound", 0))]
    /\ UNCHANGED <<labelFile, lockShared, builders, store, commitRuns>>

\* Write for LockedFileAppender: the bytes go to the end of the file.
AppenderWrite(t, token) ==
    /\ task[t].pc = "ap_open"
    /\ Len(labelFile.data) < MaxFileLen
    /\ labelFile' = [labelFile EXCEPT !.data = Append(@, token)]
    /\ task' = [task EXCEPT ![t].pc = "ap_written"]
    /\ UNCHANGED <<lockShared, lockExcl, builders, store, commitRuns>>

\* Drop for LockedFileAppender: the file is unlocked.
AppenderDrop(t) ==
    /\ task[t].pc \in {"ap_open", "ap_written"}
    /\ lockExcl' = lockExcl \ {t}
    /\ task' = [task EXCEPT ![t] = Done("append", Ret("ok", 0))]
    /\ UNCHANGED <<labelFile, lockShared, builders, store, commitRuns>>

ReaderStep(t) ==
    \/ LockedFileOpen(t)
    \/ LockedFileRead(t)
    \/ LockedFileDrop(t)

AppenderStep(t) ==
    \/ AppenderOpen(t)
    \/ \E token \in FileTokens : AppenderWrite(t, token)
    \/ AppenderDrop(t)

(***************************************************************************)
(* The programs that read label files of any content.                      *)
(***************************************************************************)
\* A store with no layer and a label file of any content, or none.
InitParse ==
    /\ \E exists \in BOOLEAN, data \in FileContents :
          /\ ~exists => data = <<>>
          /\ labelFile = [exists |-> exists, data |-> data]
    /\ lockShared = {}
    /\ lockExcl = {}
    /\ builders = [n \in Names |-> NoBuilder]
    /\ store = [n \in Names |-> NoStoredLayer]
    /\ commitRuns = [n \in Names |-> 0]
    /\ task = [t \in Tasks |-> IdleTask]

NextParse == \E t \in Tasks : ReaderStep(t)

SpecParse == InitParse /\ [][NextParse]_vars

(***************************************************************************)
(* The programs that read, write and append to one label file through the  *)
(* three locked handles.                                                    *)
(***************************************************************************)
\* A store with no layer and the label file as the label store leaves it, a label
\* of some version and layer, or none.
InitLock ==
    /\ \E exists \in BOOLEAN, version \in Versions, layer \in Names \cup {NoLayer} :
          labelFile = [exists |-> exists,
                       data |-> IF exists THEN FormatLabel(version, layer) ELSE <<>>]
    /\ lockShared = {}
    /\ lockExcl = {}
    /\ builders = [n \in Names |-> NoBuilder]
    /\ store = [n \in Names |-> NoStoredLayer]
    /\ commitRuns = [n \in Names |-> 0]
    /\ task = [t \in Tasks |-> IdleTask]

LockStep(t) ==
    \/ ReaderStep(t)
    \/ WriteLabelStep(t)
    \/ AppenderStep(t)

NextLock == \E t \in Tasks : LockStep(t)

SpecLock == InitLock /\ [][NextLock]_vars

\* A task that holds a handle goes on: the read and the write of a call run to
\* their end, and a handle is dropped when its holder is done with it.
HandleStep(t) ==
    \/ LockedFileRead(t)
    \/ LockedFileDrop(t)
    \/ WlRead(t)
    \/ WlWrite(t)
    \/ AppenderDrop(t)

SpecLockLive == SpecLock /\ \A t \in Tasks : WF_vars(HandleStep(t))

(***************************************************************************)
(* The programs that build layers.                                         *)
(***************************************************************************)
BuilderStep(t) ==
    \/ CreateBaseLayer(t)
    \/ \E p \in Names : OpenWrite(t, p)
    \/ \E b \in Names, tr \in Triples : AddStringTriple(t, b, tr)
    \/ \E b \in Names, tr \in Triples : AddIdTriple(t, b, tr)
    \/ \E b \in Names, tr \in Triples : RemoveStringTriple(t, b, tr)
    \/ \E b \in Names, tr \in Triples : RemoveIdTriple(t, b, tr)
    \/ \E b \in Names : CommitLock(t, b)
    \/ CommitRun(t)
    \/ CommitFail(t)

NextBuilder == \E t \in Tasks : BuilderStep(t)

SpecBuilder == InitBuilder /\ [][NextBuilder]_vars

(***************************************************************************)
(* The programs that build layers and give up a commit: the future of a    *)
(* commit is dropped before it resolves, and commits are retried.          *)
(***************************************************************************)
RetryStep(t) ==
    \/ BuilderStep(t)
    \/ CommitDrop(t)

NextRetry == \E t \in Tasks : RetryStep(t)

SpecRetry == InitBuilder /\ [][NextRetry]_vars

(***************************************************************************)
(* The programs that build layers on a committed layer a label points at,  *)
(* and move the label's head.                                               *)
(***************************************************************************)
\* The triples these programs stage.
StagedTriples == {IdTriple(1, 1, 1)}

\* The layer the label points at: a base layer committed earlier, whose builder
\* is gone.
Root == MaxLayers

\* A store holding the layer Root, with or without triples, and a label whose
\* head a set_head has set to it.
InitGrow ==
    /\ labelFile = [exists |-> TRUE, data |-> FormatLabel(1, Root)]
    /\ lockShared = {}
    /\ lockExcl = {}
    /\ builders = [n \in Names |-> NoBuilder]
    /\ \E held \in SUBSET StagedTriples :
          store = [n \in Names |->
                      IF n = Root
                      THEN [present |-> TRUE, parent |-> NoLayer,
                            additions |-> held, removals |-> {}]
                      ELSE NoStoredLayer]
    /\ commitRuns = [n \in Names |-> 0]
    /\ task = [t \in Tasks |-> IdleTask]

GrowStep(t) ==
    \/ \E p \in Names : OpenWrite(t, p)
    \/ \E b \in Names, tr \in StagedTriples : AddIdTriple(t, b, tr)
    \/ \E b \in Names, tr \in StagedTriples : RemoveIdTriple(t, b, tr)
    \/ \E b \in Names : BuilderName(t, b)
    \/ \E b \in Names : CommitLock(t, b)
    \/ CommitRun(t)
    \/ CommitFail(t)
    \/ \E l \in Names : SetHeadGetLabel(t, l)
    \/ SetHeadCheck(t)
    \/ SetHeadSetLabel(t)

NextGrow == \E t \in Tasks : GrowStep(t)

SpecGrow == InitGrow /\ [][NextGrow]_vars

(***************************************************************************)
(* The programs that hold a Database whose label or head layer gets lost:   *)
(* the label is deleted, or the head was set to a layer of another store.   *)
(***************************************************************************)
\* A Database made by Store::create, and layers of which the store holds some: the
\* others are layers of another store, whose handles the program holds as well.
InitLost ==
    /\ labelFile = [exists |-> TRUE, data |-> FormatLabel(0, NoLayer)]
    /\ lockShared = {}
    /\ lockExcl = {}
    /\ \E f \in Forests, here \in SUBSET Names :
          /\ builders = [n \in Names |-> [created |-> TRUE, inner |-> FALSE,
                                          parent |-> f[n], adds |-> {}, rems |-> {},
                                    name |-> n]]
          /\ store = [n \in Names |-> [present |-> n \in here, parent |-> f[n],
                                       additions |-> {}, removals |-> {}]]
    /\ commitRuns = [n \in Names |-> 1]
    /\ task = [t \in Tasks |-> IdleTask]

LostStep(t) ==
    \/ StoreCreate(t)
    \/ StoreOpen(t)
    \/ DeleteLabel(t)
    \/ HeadCall(t)
    \/ HeadGetLayer(t)
    \/ \E l \in Names : SetHeadCall(t, l)
    \/ SetHeadCheck(t)
    \/ SetHeadSetLabel(t)

NextLost == \E t \in Tasks : LostStep(t)

SpecLost == InitLost /\ [][NextLost]_vars

(***************************************************************************)
(* Properties.                                                             *)
(***************************************************************************)
\* The proper ancestors of a layer: what following parent from it reaches.
RECURSIVE AncestorsOf(_)
AncestorsOf(n) ==
    IF ParentOf(n) = NoLayer THEN {} ELSE {ParentOf(n)} \cup AncestorsOf(ParentOf(n))

StoredLabel == get_label(labelFile)

\* Task t is back from a set_head that read the label and went on to set_label.
RanSetLabel(t) ==
    /\ Returned(t, "set_head")
    /\ task[t].seen.tag = "ok"
    /\ task[t].cas # "na"

\* Two returned set_head calls that read the same version and passed the check.
SameVersionRace(t, u) ==
    /\ t # u
    /\ RanSetLabel(t)
    /\ RanSetLabel(u)
    /\ task[t].seen.version = task[u].seen.version

\* C1: of the concurrent set_head calls on the label that read the same label
\* version and pass the ancestor check, exactly one returns true and every other
\* one returns false.
C1_ExactlyOneWinner ==
    \A t, u \in Tasks :
        SameVersionRace(t, u) =>
            \/ task[t].ret.tag = "true" /\ task[u].ret.tag = "false"
            \/ task[t].ret.tag = "false" /\ task[u].ret.tag = "true"

\* Task t completes a write_label in this step.
WriteLabelReturns(t) ==
    /\ task[t].op = "write_label"
    /\ task[t].pc # "idle"
    /\ task'[t].pc = "idle"

\* C2: the label update is a compare-and-swap. A write_label of the label
\* (name, L, E.version + 1), the update of an expected label E to the layer L,
\* returns true iff the version stored in the file is E.version, and then the stored
\* label is (name, L, E.version + 1); in every other case it reports failure and
\* the file is as it was.
C2_WriteLabelIsCas ==
    [][\A t \in Tasks :
          (WriteLabelReturns(t) /\ task[t].ver > 0) =>
              LET stored == read_label_file(labelFile.data) IN
              IF stored.tag = "ok" /\ stored.version = task[t].ver - 1
              THEN /\ task'[t].ret.tag = "true"
                   /\ read_label_file(labelFile'.data)
                          = LabelOk(task[t].arg, task[t].ver)
              ELSE /\ task'[t].ret.tag # "true"
                   /\ labelFile' = labelFile]_vars

\* C3: when two tasks race set_head on a label at version k with different layers,
\* then after both calls the label has version k + 1 and its layer is the layer of
\* the call that returned true.
C3_RaceLeavesWinnersLayer ==
    \A t, u \in Tasks :
        (SameVersionRace(t, u) /\ task[t].arg # task[u].arg) =>
            /\ StoredLabel.tag = "ok"
            /\ StoredLabel.version = task[t].seen.version + 1
            /\ \A w \in {t, u} :
                  task[w].ret.tag = "true" => StoredLabel.layer = task[w].arg

\* C4: a set_head that returns true is one whose own set_label succeeded, and a
\* set_head whose set_label lost the race returns false.
C4_TrueMeansOwnCas ==
    \A t \in Tasks :
        Returned(t, "set_head") =>
            /\ task[t].ret.tag = "true" => task[t].cas = "Some"
            /\ task[t].cas = "None" => task[t].ret.tag = "false"

\* The version a label file holds: its first line, read as read_label_file reads it.
VersionLine(data) ==
    LET lines == Lines(data) IN
    IF Len(lines) > 0 /\ IsVersionStr(lines[1]) THEN lines[1][1][2] ELSE -1

\* Task t ends an update in this step with its comparison of versions failed: a
\* write_label that returns false, a set_label that returns None.
FailedCas(t) ==
    \/ WriteLabelReturns(t) /\ task'[t].ret.tag = "false"
    \/ task[t].pc = "sh_set" /\ task'[t].cas = "None"

\* Task t ends an update in this step without it having succeeded: a failed
\* comparison, or a set_head refused by the ancestor check.
FailedUpdate(t) ==
    \/ FailedCas(t)
    \/ task[t].pc = "sh_check" /\ task'[t].ret.tag = "false"

InSetHead(t) == task[t].op = "set_head" /\ task[t].pc # "idle"

C9_HeadIsLastSetHead ==
    [][\A t \in Tasks :
          (/\ InSetHead(t)
           /\ task'[t].pc = "idle"
           /\ task'[t].ret.tag = "true"
           /\ \A u \in Tasks \ {t} : ~InSetHead(u))
              => HeadOf(labelFile') = Ret("Some", task[t].arg)]_vars

\* The calls on a builder that go through with_builder.
StagingOps == {"add_string_triple", "add_id_triple",
               "remove_string_triple", "remove_id_triple"}

\* Task t makes, in this step, a call on the builder b that returns in the step.
BuilderCallReturns(t, b) ==
    /\ Idle(t)
    /\ task'[t] # task[t]
    /\ task'[t].pc = "idle"
    /\ task'[t].op \in StagingOps \cup {"commit"}
    /\ task'[t].arg = b

\* C6: once commit has been called on a builder, every later add_string_triple,
\* add_id_triple, remove_string_triple, remove_id_triple and commit on it returns
\* the error "builder has already been committed" and stages nothing: the builder,
\* the layer store and the count of inner commits are as they were.
C6_CommittedBuilderRefusesAll ==
    [][\A t \in Tasks, b \in Names :
          /\ (BuilderCallReturns(t, b) /\ commitRuns[b] > 0)
                 => /\ task'[t].ret.tag = "BuilderConsumed"
                    /\ builders' = builders
                    /\ store' = store
                    /\ commitRuns' = commitRuns
          /\ (Idle(t) /\ task'[t].pc = "commit_run" /\ task'[t].arg = b)
                 => commitRuns[b] = 0]_vars

\* On a builder with a staged addition that was committed into the store, a staging
\* call and a second commit have both come back with the error.
C6_Witness ==
    \E t, u \in Tasks, b \in Names :
        /\ t # u
        /\ store[b].present
        /\ store[b].additions # {}
        /\ Returned(t, "commit") /\ task[t].arg = b
        /\ task[t].ret.tag = "BuilderConsumed"
        /\ task[u].pc = "idle" /\ task[u].op \in StagingOps /\ task[u].arg = b
        /\ task[u].ret.tag = "BuilderConsumed"

\* The tasks inside the inner commit of builder b.
Committing(b) == {t \in Tasks : task[t].pc = "commit_run" /\ task[t].arg = b}

\* C7: of the commit calls on one builder, concurrent or not, exactly one takes the
\* inner builder and runs its commit, and every other one fails with the error
\* "builder has already been committed": the inner commit is started at most once
\* per builder, at most one task is in it, a commit that got the error did so
\* because one was started, and a layer in the store came from that one.
C7_OneCommitPerBuilder ==
    \A b \in Names :
        /\ commitRuns[b] <= 1
        /\ Cardinality(Committing(b)) <= commitRuns[b]
        /\ store[b].present => commitRuns[b] = 1
        /\ \A t \in Tasks :
              (Returned(t, "commit") /\ task[t].arg = b)
                 => /\ commitRuns[b] = 1
                    /\ task[t].ret.tag \in {"ok", "IoError", "BuilderConsumed"}
                    /\ task[t].ret.tag = "ok" => store[b].present
                    /\ Committing(b) # {} => task[t].ret.tag = "BuilderConsumed"

\* Two commits on one builder overlap: one task is inside the inner commit while the
\* other has come back with the error.
C7_Witness ==
    \E t, u \in Tasks, b \in Names :
        /\ t # u
        /\ t \in Committing(b)
        /\ Returned(u, "commit") /\ task[u].arg = b
        /\ task[u].ret.tag = "BuilderConsumed"

\* Task t makes the first part of a head call in this step.
HeadCallStarts(t) ==
    /\ Idle(t)
    /\ task'[t] # task[t]
    /\ task'[t].op = "head"

\* C10: a database made by Store::create has no head. From the creation until the
\* first set_head that sets the label, head() returns Ok(None), and a set_head
\* that finds the head unset returns true whatever committed layer it is given,
\* the label becoming that layer at version 1 when no other set_head came first.
C10_NoHeadUntilFirstSetHead ==
    [][/\ (~labelFile.exists /\ labelFile'.exists)
             => get_label(labelFile') = LabelOk(NoLayer, 0)
       /\ (StoredLabel = LabelOk(NoLayer, 0) /\ labelFile' # labelFile)
             => \E t \in Tasks :
                   /\ task[t].pc = "sh_set"
                   /\ task'[t].ret.tag = "true"
                   /\ get_label(labelFile') = LabelOk(task[t].arg, 1)
       /\ \A t \in Tasks :
             /\ (HeadCallStarts(t) /\ StoredLabel = LabelOk(NoLayer, 0))
                    => task'[t] = Done("head", Ret("None", 0))
             /\ (/\ InSetHead(t)
                 /\ task'[t].pc = "idle"
                 /\ task[t].seen = LabelOk(NoLayer, 0))
                    => /\ task[t].pc = "sh_set"
                       /\ task'[t].ret.tag = "true"
                       /\ StoredLabel = task[t].seen
                             => get_label(labelFile') = LabelOk(task[t].arg, 1)]_vars

\* head() has returned None on the created label, and then the first set_head, for
\* a layer that has a parent, has returned true and set the label.
C10_Witness ==
    \E t, u \in Tasks :
        /\ t # u
        /\ Returned(t, "head") /\ task[t].ret = Ret("None", 0)
        /\ Returned(u, "set_head") /\ task[u].ret.tag = "true"
        /\ task[u].seen = LabelOk(NoLayer, 0)
        /\ ParentOf(task[u].arg) # NoLayer
        /\ StoredLabel = LabelOk(task[u].arg, 1)

\* Task t makes, in this step, the call op, which returns in the step.
CallReturns(t, op) ==
    /\ Idle(t)
    /\ task'[t] # task[t]
    /\ task'[t].pc = "idle"
    /\ task'[t].op = op

\* C11: Store::create fails with an error when the label exists already and leaves
\* the label as it is (else it makes the label with no head at version 0);
\* Store::open returns None when there is no label and Some(database) when there
\* is one, and changes nothing.
C11_CreateRefusesOpenFinds ==
    [][\A t \in Tasks :
          /\ CallReturns(t, "create") =>
                IF labelFile.exists
                THEN /\ task'[t].ret = Ret("AlreadyExists", 0)
                     /\ labelFile' = labelFile
                ELSE /\ task'[t].ret = Ret("ok", 0)
                     /\ get_label(labelFile') = LabelOk(NoLayer, 0)
          /\ CallReturns(t, "open") =>
                /\ task'[t].ret = Ret(IF labelFile.exists THEN "Some" ELSE "None", 0)
                /\ labelFile' = labelFile]_vars

\* open has returned None before the label was made, and a second create has been
\* refused on the label after set_head had moved it on.
C11_Witness ==
    \E t, u \in Tasks :
        /\ Returned(t, "open") /\ task[t].ret = Ret("None", 0)
        /\ Returned(u, "create") /\ task[u].ret = Ret("AlreadyExists", 0)
        /\ StoredLabel.tag = "ok"
        /\ StoredLabel.version > 0
        /\ StoredLabel.layer # NoLayer

\* What head() returns on a label whose head is unset.
UnsetHeadResult == HeadOf([exists |-> TRUE, data |-> FormatLabel(0, NoLayer)])

\* C12: a missing layer is told apart from an unset head: head() on a label whose
\* head layer the layer store does not find returns something else than head() on
\* a label with no head.
C12_MissingLayerIsNotUnsetHead ==
    [][\A t \in Tasks :
          (/\ task[t].pc = "head_layer"
           /\ task'[t].pc = "idle"
           /\ ~HasLayer(task[t].seen.layer))
              => task'[t].ret # UnsetHeadResult]_vars

\* C13: head() and set_head() on a label that is no longer in the label store fail
\* with a NotFound error, and set_head then writes no label.
C13_LostLabelIsNotFound ==
    [][\A t \in Tasks :
          (/\ Idle(t)
           /\ task'[t] # task[t]
           /\ task'[t].op \in {"head", "set_head"}
           /\ ~labelFile.exists)
              => /\ task'[t].pc = "idle"
                 /\ task'[t].ret = Ret("NotFound", 0)
                 /\ labelFile' = labelFile]_vars

\* The label was deleted, and then a head and a set_head have both come back with
\* NotFound, the label still being gone.
C13_Witness ==
    \E t, u \in Tasks :
        /\ ~labelFile.exists
        /\ Returned(t, "head") /\ task[t].ret = Ret("NotFound", 0)
        /\ Returned(u, "set_head") /\ task[u].ret = Ret("NotFound", 0)

\* The layer reached from layer n by following parent k times, NoLayer past the base.
RECURSIVE NthParent(_, _)
NthParent(n, k) ==
    IF n = NoLayer \/ k = 0 THEN n ELSE NthParent(ParentOf(n), k - 1)

Range(q) == {q[i] : i \in 1..Len(q)}

\* The first layer, from n towards the base, that records the triple as an addition
\* or a removal; NoLayer when none does.
RECURSIVE FirstTouching(_, _)
FirstTouching(n, triple) ==
    IF n = NoLayer THEN NoLayer
    ELSE IF triple \in store[n].additions \cup store[n].removals THEN n
    ELSE FirstTouching(ParentOf(n), triple)

\* The layer and the triple a returned triple_exists was asked about.
AskedLayer(t) == task[t].arg[1]
AskedTriple(t) == task[t].arg[2]

\* The chain is L0 that adds the triple, L1 that removes it, L2 that adds it again.
AddRemoveAdd(triple) ==
    /\ store[1].additions = {triple}
    /\ store[2].removals = {triple}
    /\ store[3].additions = {triple}

\* C15: triple_exists(t) on a layer L is true iff the first layer of L's chain, from
\* L towards the base, that records t as an addition or a removal records it as an
\* addition; with L0 adding t, L1 removing t and L2 adding t again it is true on
\* L2, false on L1 and true on L0.
C15_TripleExistsIsMostRecentTouch ==
    \A t \in Tasks :
        Returned(t, "triple_exists") =>
            LET first == FirstTouching(AskedLayer(t), AskedTriple(t)) IN
            /\ task[t].ret =
                  Bool(first # NoLayer /\ AskedTriple(t) \in store[first].additions)
            /\ AddRemoveAdd(AskedTriple(t)) =>
                  task[t].ret = Bool(AskedLayer(t) \in {1, 3})

\* On the chain that adds, removes and adds a triple again, triple_exists was asked
\* of the layer that removes it and has returned false.
C15_Witness ==
    \E t \in Tasks :
        /\ Returned(t, "triple_exists")
        /\ AddRemoveAdd(AskedTriple(t))
        /\ AskedLayer(t) = 2
        /\ task[t].ret = Bool(FALSE)

\* Triple a comes before triple b in lexicographic (subject, predicate, object) order.
TripleBefore(a, b) ==
    \/ a[1] < b[1]
    \/ a[1] = b[1] /\ a[2] < b[2]
    \/ a[1] = b[1] /\ a[2] = b[2] /\ a[3] < b[3]

\* subjects(), each subject's predicates() and each pair's objects() of layer n yield
\* strictly ascending ids.
EnumerationsAscend(n) ==
    LET ss == subjects(n) IN
    /\ \A i \in 1..(Len(ss) - 1) : ss[i].subject < ss[i + 1].subject
    /\ \A i \in 1..Len(ss) :
          LET ps == predicates(ss[i]) IN
          /\ \A j \in 1..(Len(ps) - 1) : ps[j].predicate < ps[j + 1].predicate
          /\ \A j \in 1..Len(ps) :
                LET os == objects(ps[j]) IN
                \A k \in 1..(Len(os) - 1) : os[k] < os[k + 1]

\* C16: triples() yields the triples in strictly ascending lexicographic (subject,
\* predicate, object) order, so without duplicates, when subjects(), predicates()
\* and objects() yield strictly ascending ids.
C16_TriplesAscend ==
    \A t \in Tasks :
        (Returned(t, "triples") /\ EnumerationsAscend(task[t].arg[1])) =>
            LET q == task[t].ret.val IN
            \A i \in 1..(Len(q) - 1) : TripleBefore(q[i], q[i + 1])

\* triples() has returned three triples, two of one subject and one of another, the
\* last of them added by the base layer and the first by the topmost layer.
C16_Witness ==
    \E t \in Tasks :
        /\ Returned(t, "triples")
        /\ Len(task[t].ret.val) = 3
        /\ task[t].ret.val[1][1] = task[t].ret.val[2][1]
        /\ task[t].ret.val[2][1] < task[t].ret.val[3][1]
        /\ task[t].ret.val[3] \in store[1].additions
        /\ task[t].ret.val[1] \in store[3].additions

\* The logical set of the chain of n: layer by layer from the base, the parent's
\* set less the removals, and the additions.
RECURSIVE LogicalSet(_)
LogicalSet(n) ==
    IF n = NoLayer THEN {}
    ELSE (LogicalSet(ParentOf(n)) \ store[n].removals) \cup store[n].additions

\* C17: a lookup handle is no promise of results: triple_exists(s, p, o) is false
\* whenever (s, p, o) is not in the logical set, also when lookup_subject(s) and
\* lookup_predicate(p) both give handles, and it is true exactly for the triples
\* that triples() enumerates.
C17_HandleIsNoPromise ==
    \A t \in Tasks :
        Returned(t, "triple_exists") =>
            /\ AskedTriple(t) \notin LogicalSet(AskedLayer(t))
                  => task[t].ret = Bool(FALSE)
            /\ task[t].ret =
                  Bool(AskedTriple(t) \in Range(layer_triples(AskedLayer(t))))

\* triple_exists has returned false for a triple whose subject and whose subject
\* and predicate both have handles, a later layer having removed the triple.
C17_Witness ==
    \E t \in Tasks :
        /\ Returned(t, "triple_exists")
        /\ task[t].ret = Bool(FALSE)
        /\ LET pairs == lookup_subject(AskedLayer(t), AskedTriple(t)[1]) IN
           /\ pairs.tag = "Some"
           /\ lookup_predicate(pairs, AskedTriple(t)[2]).tag = "Some"
        /\ AskedTriple(t) \in store[AskedLayer(t)].removals

\* The pairs an object lookup of a returned has_subject_predicate_pair enumerates.
AskedPairs(t) == subject_predicate_pairs(lookup_object(task[t].arg[1], task[t].arg[2]))

\* C18: has_subject_predicate_pair(s, p) is true iff (s, p) occurs in
\* subject_predicate_pairs(), whenever these come in ascending lexicographic
\* (subject, predicate) order: the early exit skips no pair that would have matched.
C18_EarlyExitSkipsNoPair ==
    \A t \in Tasks :
        (/\ Returned(t, "has_subject_predicate_pair")
         /\ \A i \in 1..(Len(AskedPairs(t)) - 1) :
               /\ PairBefore(AskedPairs(t)[i], AskedPairs(t)[i + 1])
               /\ AskedPairs(t)[i] # AskedPairs(t)[i + 1])
            => task[t].ret =
                  Bool(<<task[t].arg[3], task[t].arg[4]>> \in Range(AskedPairs(t)))

\* has_subject_predicate_pair has returned true for a pair that comes after a pair
\* of a smaller subject and a greater predicate.
C18_Witness ==
    \E t \in Tasks :
        /\ Returned(t, "has_subject_predicate_pair")
        /\ task[t].ret = Bool(TRUE)
        /\ Len(AskedPairs(t)) >= 2
        /\ AskedPairs(t)[1][1] < task[t].arg[3]
        /\ AskedPairs(t)[1][2] > task[t].arg[4]

\* The string triple a task asked about.
AskedStringTriple(t) == task[t].arg[2]

\* The id the dictionary of the object's own type gives it: the node dictionary
\* for a Node, the value dictionary for a Value.
TypedObjectId(n, object) ==
    IF object.type = "Node" THEN object_node_id(n, object.str)
    ELSE object_value_id(n, object.str)

\* The chain of layer n holds the triple ("cow", "says", Value("moo")) and nothing
\* else.
HoldsOnlyCowSaysValueMoo(n) ==
    \E triple \in DictIdTriples :
        /\ LogicalSet(n) = {triple}
        /\ id_subject(n, triple[1]).tag = "Some"
        /\ id_subject(n, triple[1]).val = "cow"
        /\ id_predicate(n, triple[2]).tag = "Some"
        /\ id_predicate(n, triple[2]).val = "says"
        /\ id_object(n, triple[3]).tag = "Some"
        /\ id_object(n, triple[3]).val = Value("moo")

\* C19: node and value objects are resolved in disjoint id spaces:
\* string_triple_to_id and string_triple_exists resolve a Node(str) object only
\* through object_node_id and a Value(str) object only through object_value_id, and
\* the two never give one string the same id; so a layer holding only
\* ("cow", "says", Value("moo")) reports that triple as existing and
\* ("cow", "says", Node("moo")) as not existing.
C19_NodeAndValueResolveApart ==
    /\ \A n \in Names : \A str \in NodeStrings \cap ValueStrings :
          (object_node_id(n, str).tag = "Some" /\ object_value_id(n, str).tag = "Some")
              => object_node_id(n, str).val # object_value_id(n, str).val
    /\ \A t \in Tasks :
          Returned(t, "string_triple_to_id") =>
              LET n == AskedLayer(t)
                  asked == AskedStringTriple(t)
                  subject == subject_id(n, asked.subject)
                  predicate == predicate_id(n, asked.predicate)
                  object == TypedObjectId(n, asked.object)
              IN IF subject.tag = "Some" /\ predicate.tag = "Some" /\ object.tag = "Some"
                 THEN /\ task[t].ret.tag = "Some"
                      /\ task[t].ret.val = IdTriple(subject.val, predicate.val, object.val)
                 ELSE task[t].ret.tag = "None"
    /\ \A t \in Tasks :
          Returned(t, "string_triple_exists") =>
              LET n == AskedLayer(t)
                  asked == AskedStringTriple(t)
                  subject == subject_id(n, asked.subject)
                  predicate == predicate_id(n, asked.predicate)
                  object == TypedObjectId(n, asked.object)
              IN /\ task[t].ret =
                       Bool(/\ subject.tag = "Some"
                            /\ predicate.tag = "Some"
                            /\ object.tag = "Some"
                            /\ IdTriple(subject.val, predicate.val, object.val)
                                  \in LogicalSet(n))
                 /\ (/\ HoldsOnlyCowSaysValueMoo(n)
                     /\ asked.subject = "cow"
                     /\ asked.predicate = "says"
                     /\ asked.object.str = "moo")
                       => task[t].ret = Bool(asked.object.type = "Value")

\* A layer holds only ("cow", "says", Value("moo")) and knows "moo" as a node too;
\* asked for ("cow", "says", Node("moo")), string_triple_exists has returned false.
C19_Witness ==
    \E t \in Tasks :
        /\ Returned(t, "string_triple_exists")
        /\ HoldsOnlyCowSaysValueMoo(AskedLayer(t))
        /\ AskedStringTriple(t) = StringTriple("cow", "says", Node("moo"))
        /\ object_node_id(AskedLayer(t), "moo").tag = "Some"
        /\ task[t].ret = Bool(FALSE)

\* The three components of a string triple are known to the layer.
KnownStringTriple(n, triple) ==
    /\ subject_id(n, triple.subject).tag = "Some"
    /\ predicate_id(n, triple.predicate).tag = "Some"
    /\ TypedObjectId(n, triple.object).tag = "Some"

\* C20: for every string triple t whose three components are known to the layer,
\* id_triple_to_string(string_triple_to_id(t)) equals t, the Node or Value type of
\* the object included: string_triple_to_id gives an id triple that
\* id_triple_to_string turns back into t, and id_triple_to_string called with the
\* id triple of t returns t.
C20_StringIdRoundTrip ==
    \A t \in Tasks :
        /\ Returned(t, "string_triple_to_id") =>
              LET n == AskedLayer(t)
                  asked == AskedStringTriple(t)
              IN KnownStringTriple(n, asked) =>
                    /\ task[t].ret.tag = "Some"
                    /\ id_triple_to_string(n, task[t].ret.val).tag = "Some"
                    /\ id_triple_to_string(n, task[t].ret.val).val = asked
        /\ Returned(t, "id_triple_to_string") =>
              LET n == AskedLayer(t)
              IN \A triple \in StringTriples :
                    (/\ KnownStringTriple(n, triple)
                     /\ string_triple_to_id(n, triple).tag = "Some"
                     /\ string_triple_to_id(n, triple).val = task[t].arg[2])
                       => /\ task[t].ret.tag = "Some"
                          /\ task[t].ret.val = triple

\* string_triple_to_id has converted a triple whose object is a Value of a string
\* that the layer knows as a node too, and whose subject a parent layer introduced.
C20_Witness ==
    \E t \in Tasks :
        /\ Returned(t, "string_triple_to_id")
        /\ task[t].ret.tag = "Some"
        /\ AskedStringTriple(t).object.type = "Value"
        /\ object_node_id(AskedLayer(t), AskedStringTriple(t).object.str).tag = "Some"
        /\ ParentOf(AskedLayer(t)) # NoLayer
        /\ subject_id(ParentOf(AskedLayer(t)), AskedStringTriple(t).subject).tag = "Some"

\* C21: read_label_file accepts exactly the two-line format (a decimal version, then
\* a layer name or nothing, a newline after each line; an empty second line is
\* layer None) and returns a format error for any other content: a wrong number of
\* lines, a version that is no number, a malformed layer name, a missing final
\* newline.
C21_ExactlyTwoLineFormat ==
    \A t \in Tasks :
        (Returned(t, "read_label_file") /\ labelFile.exists) =>
            IF \E v \in Versions, l \in Names \cup {NoLayer} :
                   labelFile.data = FormatLabel(v, l)
            THEN \E v \in Versions, l \in Names \cup {NoLayer} :
                    /\ labelFile.data = FormatLabel(v, l)
                    /\ task[t].ret.tag = "ok"
                    /\ task[t].ret.val = <<l, v>>
            ELSE task[t].ret.tag = "InvalidData"

\* C22: after any sequence of label writes through write_label the label file still
\* consists of exactly two lines (the version, then the layer name or nothing), and
\* read_label_file on it returns a label: the one most recently written.
C22_WritesKeepTwoLines ==
    labelFile.exists =>
        /\ Len(Lines(labelFile.data)) = 2
        /\ read_label_file(labelFile.data).tag = "ok"
        /\ labelFile.data = FormatLabel(read_label_file(labelFile.data).version,
                                        read_label_file(labelFile.data).layer)

\* The handles a task holds on the label file.
HoldsReader(t) == task[t].pc \in {"lf_read", "lf_held"}
HoldsWriter(t) == task[t].pc \in {"wl_read", "wl_write"}
HoldsAppender(t) == task[t].pc \in {"ap_open", "ap_written"}

\* C23: the locks of the label file are reader/writer locks: while a
\* LockedFileWriter or LockedFileAppender for the file exists, no LockedFile reader
\* and no other writer or appender for it exists; any number of readers may hold
\* the file at once. A reader holds the shared lock, a writer or appender the
\* exclusive one.
C23_ReaderWriterLocks ==
    /\ \A t \in Tasks :
          /\ HoldsReader(t) <=> t \in lockShared
          /\ (HoldsWriter(t) \/ HoldsAppender(t)) <=> t \in lockExcl
    /\ \A t \in Tasks :
          (HoldsWriter(t) \/ HoldsAppender(t)) =>
              \A u \in Tasks \ {t} :
                  ~HoldsReader(u) /\ ~HoldsWriter(u) /\ ~HoldsAppender(u)

\* Every task holds a LockedFile reader of the file at once, and a writer has been
\* at the file before.
C23_Witness ==
    /\ \A t \in Tasks : HoldsReader(t)
    /\ lockShared = Tasks
    /\ read_label_file(labelFile.data).tag # "ok"

\* C24: every lock acquired by a LockedFile, LockedFileWriter or LockedFileAppender
\* is released in the end, on every exit path: no task that has completed its
\* operation holds a lock, and a task that holds a lock comes to hold none.
C24_LocksReleased ==
    /\ [](\A t \in Tasks : Idle(t) => t \notin lockShared \cup lockExcl)
    /\ \A t \in Tasks :
          (t \in lockShared \cup lockExcl) ~> (t \notin lockShared \cup lockExcl)

\* read_label_file has failed with a format error for one task, on a LockedFile, and
\* for another inside write_label, which so returned without writing; the file is
\* unlocked.
C24_Witness ==
    /\ Unlocked
    /\ \E t \in Tasks :
          Returned(t, "read_label_file") /\ task[t].ret.tag = "InvalidData"
    /\ \E t \in Tasks :
          Returned(t, "write_label") /\ task[t].ret.tag = "InvalidData"

\* C28: write_label holds the exclusive lock of the file from its re-read of the
\* stored version through its write or its decision not to write: meanwhile no
\* other task holds a handle on the file, the file changes by no other task's step,
\* and the lock is still held when the write is next.
C28_WriteLabelHoldsLock ==
    [][\A t \in Tasks :
          HoldsWriter(t) =>
              /\ lockExcl = {t}
              /\ lockShared = {}
              /\ \A u \in Tasks \ {t} :
                    ~HoldsReader(u) /\ ~HoldsWriter(u) /\ ~HoldsAppender(u)
              /\ task'[t] = task[t] => labelFile' = labelFile
              /\ task'[t].pc = "wl_write" => lockExcl' = {t}]_vars

\* A write_label has compared the versions and is about to write, after another
\* task has read the label.
C28_Witness ==
    \E t \in Tasks :
        /\ task[t].pc = "wl_write"
        /\ t \in lockExcl
        /\ \E u \in Tasks \ {t} : Returned(u, "read_label_file")

\* The head a label file stores; NoLayer when it stores none.
StoredHead(file) ==
    IF get_label(file).tag = "ok" THEN get_label(file).layer ELSE NoLayer

\* Layer h is layer a or a descendant of it.
InSubtree(a, h) == h = a \/ (HasLayer(h) /\ is_ancestor_of(a, h))

\* C25: two builders opened with open_write on the same parent layer can both
\* commit, in any interleaving: builders have different names, a commit that
\* returns a layer has put it in the store under its builder's parent, and a
\* commit is refused only when its own builder was committed before. With the
\* head at the parent at most one of the two layers can become the head: once the
\* head is a layer or below it, it stays there, so it never moves to a sibling.
C25_SiblingsBothCommit ==
    /\ [](\A a, b \in Created : a # b => builders[a].name # builders[b].name)
    /\ [](\A t \in Tasks :
             Returned(t, "commit") =>
                 /\ task[t].ret.tag = "ok" =>
                       /\ HasLayer(task[t].ret.val)
                       /\ ParentOf(task[t].ret.val) = builders[task[t].arg].parent
                 /\ task[t].ret.tag = "BuilderConsumed" => commitRuns[task[t].arg] >= 1)
    /\ [][labelFile' # labelFile =>
             \A a \in Names :
                 (HasLayer(a) /\ InSubtree(a, StoredHead(labelFile)))
                     => InSubtree(a, StoredHead(labelFile'))]_vars

\* Two layers built on the layer the head was at are both in the store; one of them
\* is the head now, and a set_head of the other has returned false.
C25_Witness ==
    \E a, b \in Names :
        /\ a # b
        /\ HasLayer(a) /\ HasLayer(b)
        /\ ParentOf(a) = Root /\ ParentOf(b) = Root
        /\ StoredHead(labelFile) = a
        /\ \E t \in Tasks :
              /\ Returned(t, "set_head")
              /\ task[t].arg = b
              /\ task[t].ret.tag = "false"

\* C26: committed layers are immutable: a commit of a child layer, the opening of
\* further builders, staging and any set_head leave every layer that is in the
\* store as it is, its parent and its logical triple set included, and
\* triple_exists on it answers as before (a child's removals do not show on the
\* parent).
C26_CommittedLayersImmutable ==
    [][store' # store =>
          \A n \in Names :
              store[n].present =>
                  /\ store'[n] = store[n]
                  /\ LogicalSet(n)' = LogicalSet(n)
                  /\ \A tr \in StagedTriples :
                        triple_exists(n, tr[1], tr[2], tr[3])'
                            = triple_exists(n, tr[1], tr[2], tr[3])]_vars

\* A child layer that removes a triple of its parent is committed and is the head:
\* triple_exists is true on the parent and false on the child.
C26_Witness ==
    \E c \in Names, tr \in StagedTriples :
        /\ HasLayer(c)
        /\ ParentOf(c) = Root
        /\ tr \in store[c].removals
        /\ triple_exists(Root, tr[1], tr[2], tr[3])
        /\ ~triple_exists(c, tr[1], tr[2], tr[3])
        /\ StoredHead(labelFile) = c

\* C27: a builder's name is fixed at construction: no step changes it, name()
\* returns the name the builder got from open_write, before and after staging and
\* commit, and the layer a successful commit returns has that name and is in the
\* store.
C27_BuilderNameFixed ==
    /\ [][\A b \in Names :
             builders[b].created =>
                 /\ builders'[b].created
                 /\ builders'[b].name = builders[b].name]_vars
    /\ [](\A t \in Tasks :
             /\ (Returned(t, "open_write") /\ task[t].ret.tag = "ok") =>
                   builders[task[t].ret.val].name = task[t].ret.val
             /\ Returned(t, "name") =>
                   /\ task[t].ret.val = task[t].arg
                   /\ task[t].ret.val = builders[task[t].arg].name
             /\ (Returned(t, "commit") /\ task[t].ret.tag = "ok") =>
                   /\ task[t].ret.val = task[t].arg
                   /\ task[t].ret.val = builders[task[t].arg].name
                   /\ HasLayer(task[t].ret.val))

\* A builder that staged a triple was committed by one task, and another task has
\* asked its name.
C27_Witness ==
    \E b \in Names, t, u \in Tasks :
        /\ Returned(t, "commit") /\ task[t].arg = b /\ task[t].ret.tag = "ok"
        /\ Returned(u, "name") /\ task[u].arg = b
        /\ store[b].additions # {}
        /\ ~builders[b].inner

\* What a task gave resolve_with.
ResolvedTriple(t) == task[t].arg[1]
NodeMap(t) == task[t].arg[2]
PredicateMap(t) == task[t].arg[3]
ValueMap(t) == task[t].arg[4]

\* Some unresolved string of the triple is missing from the map of its kind.
MissesString(self, node_map, predicate_map, value_map) ==
    \/ self.subject.kind = "Unresolved" /\ self.subject.val \notin DOMAIN node_map
    \/ self.predicate.kind = "Unresolved" /\ self.predicate.val \notin DOMAIN predicate_map
    \/ /\ self.object.kind = "Unresolved"
       /\ self.object.val.type = "Node"
       /\ self.object.val.str \notin DOMAIN node_map
    \/ /\ self.object.kind = "Unresolved"
       /\ self.object.val.type = "Value"
       /\ self.object.val.str \notin DOMAIN value_map

\* C29: resolve_with leaves every Resolved id as it is, maps an unresolved subject
\* and an unresolved Node object through the node map (one string gets one id in
\* both positions), an unresolved Value object through the value map and an
\* unresolved predicate through the predicate map, and returns None iff some
\* unresolved string is missing from its map.
C29_ResolveWithMaps ==
    \A t \in Tasks :
        Returned(t, "resolve_with") =>
            LET self == ResolvedTriple(t)
                r == task[t].ret
            IN IF MissesString(self, NodeMap(t), PredicateMap(t), ValueMap(t))
               THEN r.tag = "None"
               ELSE /\ r.tag = "Some"
                    /\ r.val[1] = IF self.subject.kind = "Resolved"
                                  THEN self.subject.val
                                  ELSE NodeMap(t)[self.subject.val]
                    /\ r.val[2] = IF self.predicate.kind = "Resolved"
                                  THEN self.predicate.val
                                  ELSE PredicateMap(t)[self.predicate.val]
                    /\ r.val[3] = IF self.object.kind = "Resolved"
                                  THEN self.object.val
                                  ELSE IF self.object.val.type = "Node"
                                  THEN NodeMap(t)[self.object.val.str]
                                  ELSE ValueMap(t)[self.object.val.str]
                    /\ (/\ self.subject.kind = "Unresolved"
                        /\ self.object.kind = "Unresolved"
                        /\ self.object.val = Node(self.subject.val))
                          => r.val[1] = r.val[3]

\* resolve_with has resolved a triple whose unresolved subject and unresolved Node
\* object are one string, which the value map knows under another id, and whose
\* predicate was resolved before.
C29_Witness ==
    \E t \in Tasks :
        /\ Returned(t, "resolve_with")
        /\ task[t].ret.tag = "Some"
        /\ ResolvedTriple(t).subject = Unresolved("moo")
        /\ ResolvedTriple(t).object = Unresolved(Node("moo"))
        /\ ResolvedTriple(t).predicate.kind = "Resolved"
        /\ "moo" \in DOMAIN ValueMap(t)
        /\ ValueMap(t)["moo"] # NodeMap(t)["moo"]
        /\ task[t].ret.val[1] = task[t].ret.val[3]

StagingCallReturns(t, b, ops) ==
    /\ Idle(t)
    /\ task'[t] # task[t]
    /\ task'[t].pc = "idle"
    /\ task'[t].op \in ops
    /\ task'[t].arg = b

\* C31: staging and commit on a builder are serialized by its lock. An add or
\* remove call that returns success finds the inner builder in place and leaves it
\* there with its triple staged; staged operations are never withdrawn; once commit
\* has taken the inner builder every add or remove call fails and what was staged
\* at the take is left as it was, and it is from exactly that the inner commit
\* writes the layer.
C31_StagingSerializedWithCommit ==
    [][\A b \in Names :
          /\ builders[b].adds \subseteq builders'[b].adds
          /\ builders[b].rems \subseteq builders'[b].rems
          /\ (builders[b].created /\ ~builders[b].inner)
                 => builders'[b] = builders[b]
          /\ \A t \in Tasks :
                /\ (StagingCallReturns(t, b, StagingOps) /\ task'[t].ret.tag = "ok")
                       => /\ builders[b].inner
                          /\ builders'[b].inner
                /\ (StagingCallReturns(t, b, {"add_string_triple", "add_id_triple"})
                      /\ task'[t].ret.tag = "ok")
                       => \E tr \in Triples : builders'[b] = StageAdd(b, tr)
                /\ (StagingCallReturns(t, b, {"remove_string_triple", "remove_id_triple"})
                      /\ task'[t].ret.tag = "ok")
                       => \E tr \in Triples : builders'[b] = StageRemove(b, tr)
                /\ (StagingCallReturns(t, b, StagingOps) /\ ~builders[b].inner)
                       => task'[t].ret.tag = "BuilderConsumed"
                /\ (task[t].pc = "commit_run" /\ task[t].arg = b
                      /\ task'[t] # task[t] /\ store' # store)
                       => /\ ~builders[b].inner
                          /\ store'[builders[b].name] = BuiltLayer(b)]_vars

\* A commit of a builder came back with the layer, which holds a staged addition,
\* and a staging call ordered after the commit's take came back with the error.
C31_Witness ==
    \E t, u \in Tasks, b \in Names :
        /\ t # u
        /\ Returned(t, "commit") /\ task[t].arg = b /\ task[t].ret.tag = "ok"
        /\ store[b].present
        /\ store[b].additions # {}
        /\ store[b].additions = builders[b].adds \ builders[b].rems
        /\ task[u].pc = "idle" /\ task[u].op \in StagingOps /\ task[u].arg = b
        /\ task[u].ret.tag = "BuilderConsumed"

\* A commit of builder b has come back without a layer: the inner commit failed
\* with an I/O error, or the future was dropped after the builder was taken.
CommitGaveUp(b) ==
    \E t \in Tasks :
        /\ Returned(t, "commit")
        /\ task[t].arg = b
        /\ task[t].ret.tag \in {"IoError", "Dropped"}

\* C32: a builder has no way back to Open. A builder whose inner builder was taken
\* stays without it, also when the inner commit fails or the commit future is
\* dropped; every later add, remove and commit on it returns the error "builder has
\* already been committed" and starts no inner commit, so that from a commit that
\* gave up onwards the builder stays consumed and its layer never gets into the
\* store.
C32_NoWayBackToOpen ==
    /\ [][\A b \in Names :
             /\ (builders[b].created /\ ~builders[b].inner)
                    => /\ builders'[b] = builders[b]
                       /\ commitRuns'[b] = commitRuns[b]
             /\ \A t \in Tasks :
                   /\ (BuilderCallReturns(t, b) /\ ~builders[b].inner)
                          => task'[t].ret.tag = "BuilderConsumed"
                   /\ (task[t].pc = "commit_run" /\ task[t].arg = b
                         /\ task'[t].pc = "idle"
                         /\ task'[t].ret.tag \in {"IoError", "Dropped"})
                          => /\ ~builders'[b].inner
                             /\ store' = store
                             /\ ~store'[b].present]_vars
    /\ \A b \in Names :
          [](CommitGaveUp(b) => [](~builders[b].inner /\ ~store[b].present))

\* A builder with a staged addition whose commit failed with an I/O error: the
\* retried commit came back with the error, and no layer is in the store.
C32_Witness ==
    \E t, u \in Tasks, b \in Names :
        /\ t # u
        /\ Returned(t, "commit") /\ task[t].arg = b /\ task[t].ret.tag = "IoError"
        /\ Returned(u, "commit") /\ task[u].arg = b
        /\ task[u].ret.tag = "BuilderConsumed"
        /\ builders[b].adds # {}
        /\ ~store[b].present

====
